---- MODULE Spec2Model ----
(***************************************************************************)
(* A state-machine model of the vLLM platform manager's proxy pipeline     *)
(* (manager/main.py): backend resolution with round-robin rotation, the    *)
(* chat request sanitizer and token budget, and the tool-call normalizer   *)
(* with its non-streaming and streaming emission paths.                    *)
(*                                                                         *)
(* Text is modelled as a sequence of lexical units (one-unit strings such  *)
(* as "{", ":", a blank " ", or a word such as "path"); json.loads and     *)
(* json.dumps are modelled by a parser and a serializer over such          *)
(* sequences.                                                              *)
(***************************************************************************)
EXTENDS Integers, Sequences, FiniteSets, TLC

VARIABLES
    \* ---- backend resolver (resolve_model) ----
    models,             \* the models table: name -> registration row
    servers,            \* the servers table, in row order
    ROUND_ROBIN_STATE,  \* process-wide dict: model name -> int
    primaryIp,          \* the address _get_primary_ip() reports on this machine
    resolveLog,         \* history: per requested name, the results of resolve_model
    \* ---- one chat request (proxy_chat_completions) ----
    pc,                 \* where the handler of the request is
    clientResponse,     \* what the handler returned to the client
    usageRecords,       \* the token_usage table (append-only)
    \* ---- tool calls of the backend's answer ----
    tcInput,            \* history: the tool_calls value the backend sent
    tcNormalized,       \* history: _normalize_tool_calls of it
    tcFixed,            \* history: _fix_tool_calls of it
    \* ---- the streaming reassembler (_iter_sse) ----
    tool_call_accumulators, \* the accumulators, <<index, call>> in insertion order
    usage_info,         \* the last usage object a chunk carried, None before
    sseOut,             \* the events sent to the client so far
    linesRead,          \* how many lines of the backend were read
    streamFinalized,    \* history: the lists _finalize_tool_call_accumulators returned
    upstreamStatus,     \* the status the backend answered the streamed call with
    \* ---- the request and the process settings ----
    env,                \* the environment settings of the process
    payload,            \* the request body as it is forwarded
    upstreamCalls,      \* history: the bodies of the calls made to a backend
    budgetLog,          \* history: what the token budget step saw
    \* ---- the api_keys table ----
    last_used_at,       \* per key of the table, its last_used_at; 0 is NULL
    keyLookups,         \* history: the credentials looked up in the table
    \* ---- the tool-call debug buffer ----
    TOOL_CALL_DEBUG_MAX,    \* the capacity the process started with
    TOOL_CALL_DEBUG_BUFFER, \* the deque, oldest entry first
    \* ---- requests in flight on the event loop ----
    inflight            \* per request: where it is, and the model it names

varsR == <<models, servers, ROUND_ROBIN_STATE, primaryIp, resolveLog>>
varsT == <<tcInput, tcNormalized, tcFixed>>
varsC == <<pc, clientResponse, usageRecords>>
varsS == <<tool_call_accumulators, usage_info, sseOut, linesRead, streamFinalized,
           upstreamStatus>>
varsQ == <<env, payload, upstreamCalls, budgetLog>>
varsK == <<last_used_at, keyLookups>>
varsD == <<TOOL_CALL_DEBUG_MAX, TOOL_CALL_DEBUG_BUFFER>>

vars == <<models, servers, ROUND_ROBIN_STATE, primaryIp, resolveLog,
          pc, clientResponse, usageRecords, tcInput, tcNormalized, tcFixed,
          tool_call_accumulators, usage_info, sseOut, linesRead, streamFinalized,
          upstreamStatus, env, payload, upstreamCalls, budgetLog,
          last_used_at, keyLookups, TOOL_CALL_DEBUG_MAX, TOOL_CALL_DEBUG_BUFFER,
          inflight>>

(***************************************************************************)
(* Bounds of the model.                                                    *)
(***************************************************************************)
MaxServers == 3
MaxResolves == 3
MaxLines == 3
MaxRequests == 3
MaxPool == 2

(***************************************************************************)
(* Backend resolver.                                                       *)
(***************************************************************************)
ModelNames == {"m", "n"}
RequestNames == ModelNames \cup {"unknown"}

\* backend_host values a registration may carry
HostSpecs == {"", "AUTO", "dgx-09", "localhost"}

\* str.lower() on the host specs above
Lower(h) == CASE h = "AUTO" -> "auto"
              [] OTHER -> h

PoolSentinels == {"", "auto", "servers", "pool", "round_robin"}

LoopbackHosts == {"localhost", "127.0.0.1"}

\* what _get_primary_ip() can return: the local endpoint address, or the
\* fallback when the socket call fails
PrimaryIps == {"10.0.0.5", "127.0.0.1"}

ModelPort == 8000

\* hostname of the i-th row of the servers table (hostnames are unique)
ServerHostname(i) == IF i = 2 THEN "localhost" ELSE "dgx-0" \o ToString(i)

ServerTables ==
    UNION { { [i \in 1..n |-> [hostname |-> ServerHostname(i),
                                port |-> 8000 + i,
                                enabled |-> en[i]]] : en \in [1..n -> BOOLEAN] }
            : n \in 0..MaxServers }

Registrations ==
    { [present |-> FALSE, enabled |-> FALSE, backend_host |-> "", backend_port |-> ModelPort] }
    \cup { [present |-> TRUE, enabled |-> FALSE, backend_host |-> "", backend_port |-> ModelPort] }
    \cup { [present |-> TRUE, enabled |-> TRUE, backend_host |-> h, backend_port |-> ModelPort]
           : h \in HostSpecs }

\* the query without its filter: every row of the table
AllServers(tbl) == tbl

\* db.query(Server).filter(Server.enabled == True).all()
RECURSIVE EnabledServers(_)
EnabledServers(tbl) ==
    IF tbl = <<>> THEN <<>>
    ELSE IF Head(tbl).enabled THEN <<Head(tbl)>> \o EnabledServers(Tail(tbl))
         ELSE EnabledServers(Tail(tbl))

\* ROUND_ROBIN_STATE.get(name, 0)
RRGet(state, name) == IF name \in DOMAIN state THEN state[name] ELSE 0

\* index = ROUND_ROBIN_STATE.get(model.name, 0) % len(servers)
RRIndexStuck(counter, n) == 0
RRIndex(counter, n) == counter % n

\* ROUND_ROBIN_STATE[model.name] = index + 1
RRStoredNoAdvance(index) == index
RRStored(index) == index + 1

\* use_servers = str(model.backend_host or "").lower() in {...}
UseServers(reg) == Lower(reg.backend_host) \in PoolSentinels

\* if host in ["localhost", "127.0.0.1"]: host = _get_primary_ip()
ReachableHost(host, ip) == IF host \in LoopbackHosts THEN ip ELSE host

NoServer == [hostname |-> "", port |-> 0, enabled |-> FALSE]

\* The outcome of resolve_model(name) that reads the counter map state; ip is
\* what _get_primary_ip() returns if it is called.
ResolveOutcomeFrom(state, name, ip) ==
    LET found == name \in ModelNames /\ models[name].present /\ models[name].enabled
        pool == EnabledServers(servers)
    IN  IF ~found
        THEN [status |-> 404, pooled |-> FALSE, read |-> 0, index |-> 0,
              node |-> NoServer, host |-> "", port |-> 0]
        ELSE IF pool # <<>> /\ UseServers(models[name])
        THEN LET read == RRGet(state, name)
                 index == RRIndex(read, Len(pool))
                 selected == pool[index + 1]
             IN  [status |-> 200, pooled |-> TRUE, read |-> read, index |-> index,
                  node |-> selected,
                  host |-> ReachableHost(selected.hostname, ip),
                  port |-> selected.port]
        ELSE [status |-> 200, pooled |-> FALSE, read |-> 0, index |-> 0,
              node |-> NoServer,
              host |-> ReachableHost(models[name].backend_host, ip),
              port |-> models[name].backend_port]

\* The outcome of resolve_model(name) in the current state.
ResolveOutcome(name, ip) == ResolveOutcomeFrom(ROUND_ROBIN_STATE, name, ip)

\* the counter map when every successful resolution stores a counter
ResolveStateEveryResolution(name, out) ==
    IF out.status = 200
    THEN [k \in DOMAIN ROUND_ROBIN_STATE \cup {name} |->
            IF k = name THEN RRStored(out.index) ELSE ROUND_ROBIN_STATE[k]]
    ELSE ROUND_ROBIN_STATE

\* The effect of resolve_model on the counter map.
ResolveState(name, out) ==
    IF out.pooled
    THEN [k \in DOMAIN ROUND_ROBIN_STATE \cup {name} |->
            IF k = name THEN RRStored(out.index) ELSE ROUND_ROBIN_STATE[k]]
    ELSE ROUND_ROBIN_STATE

(***************************************************************************)
(* Text and Python values.                                                 *)
(*                                                                         *)
(* A text is a sequence of units.  A Python value is a record              *)
(*   [t, lit, items]                                                       *)
(* with t the type ("str", "num", "bool", "null", "dict", "list"), lit the *)
(* text of a scalar (the content of a str, the digits of a num, "true" or  *)
(* "false" for a bool) and items the entries of a container in insertion   *)
(* order: <<key text, value>> for a dict, <<empty text, value>> for a      *)
(* list.  "absent" marks a missing key.                                    *)
(***************************************************************************)
Whitespace == {" ", "\n"}

Str(text) == [t |-> "str", lit |-> text, items |-> <<>>]
Num(unit) == [t |-> "num", lit |-> <<unit>>, items |-> <<>>]
Bool(unit) == [t |-> "bool", lit |-> <<unit>>, items |-> <<>>]
None == [t |-> "null", lit |-> <<>>, items |-> <<>>]
Absent == [t |-> "absent", lit |-> <<>>, items |-> <<>>]
Dict(items) == [t |-> "dict", lit |-> <<>>, items |-> items]
List(elems) == [t |-> "list", lit |-> <<>>,
                items |-> [i \in 1..Len(elems) |-> <<<<>>, elems[i]>>]]
PyTrue == Bool("true")
PyFalse == Bool("false")

IsStr(v) == v.t = "str"
IsDict(v) == v.t = "dict"
IsList(v) == v.t = "list"

\* the elements of a list value
Elems(v) == [i \in 1..Len(v.items) |-> v.items[i][2]]

\* str.strip()
RECURSIVE LStrip(_)
LStrip(text) ==
    IF text # <<>> /\ Head(text) \in Whitespace THEN LStrip(Tail(text)) ELSE text

RECURSIVE RStrip(_)
RStrip(text) ==
    IF text # <<>> /\ text[Len(text)] \in Whitespace
    THEN RStrip(SubSeq(text, 1, Len(text) - 1))
    ELSE text

Strip(text) == RStrip(LStrip(text))

\* Python truth value of a value
Truthy(v) ==
    CASE v.t = "str" -> v.lit # <<>>
      [] v.t = "num" -> v.lit # <<"0">>
      [] v.t = "bool" -> v.lit = <<"true">>
      [] v.t \in {"dict", "list"} -> v.items # <<>>
      [] OTHER -> FALSE

\* key in d
HasKey(d, key) == \E i \in 1..Len(d.items) : d.items[i][1] = key

\* d.get(key, default)
DictGet(d, key, default) ==
    IF HasKey(d, key)
    THEN d.items[CHOOSE i \in 1..Len(d.items) : d.items[i][1] = key][2]
    ELSE default

\* d[key] = val
DictSet(d, key, val) ==
    IF HasKey(d, key)
    THEN Dict([i \in 1..Len(d.items) |->
                 IF d.items[i][1] = key THEN <<key, val>> ELSE d.items[i]])
    ELSE Dict(Append(d.items, <<key, val>>))

\* d.setdefault(key, val)
DictSetDefault(d, key, val) == IF HasKey(d, key) THEN d ELSE DictSet(d, key, val)

\* d.pop(key, None), the dict that is left
RECURSIVE WithoutKey(_, _)
WithoutKey(items, key) ==
    IF items = <<>> THEN <<>>
    ELSE IF Head(items)[1] = key THEN WithoutKey(Tail(items), key)
         ELSE <<Head(items)>> \o WithoutKey(Tail(items), key)

DictPop(d, key) == Dict(WithoutKey(d.items, key))

(***************************************************************************)
(* json.loads and json.dumps over texts.  The grammar is JSON's, over      *)
(* units: objects, arrays, strings, numbers (one unit each), true, false   *)
(* and null, with whitespace allowed between tokens.                       *)
(***************************************************************************)
NumberUnits == {"0", "1", "2", "123"}

\* the escapes json.dumps writes inside a string, and json.loads reads back
EscapeUnit(u) == CASE u = "\"" -> "\\\""
                   [] u = "\\\"" -> "\\\\\\\""
                   [] u = "\n" -> "\\n"
                   [] OTHER -> u
UnescapeUnit(u) == CASE u = "\\\"" -> "\""
                     [] u = "\\\\\\\"" -> "\\\""
                     [] u = "\\n" -> "\n"
                     [] OTHER -> u
Escape(text) == [k \in 1..Len(text) |-> EscapeUnit(text[k])]
Unescape(text) == [k \in 1..Len(text) |-> UnescapeUnit(text[k])]

RECURSIVE SkipWs(_, _)
SkipWs(text, i) ==
    IF i <= Len(text) /\ text[i] \in Whitespace THEN SkipWs(text, i + 1) ELSE i

ParseFail == [ok |-> FALSE, val |-> None, next |-> 0]
Parsed(v, n) == [ok |-> TRUE, val |-> v, next |-> n]

\* the closing quote of the string opened at i, or 0
RECURSIVE StringEnd(_, _)
StringEnd(text, j) ==
    IF j > Len(text) THEN 0
    ELSE IF text[j] = "\"" THEN j
    ELSE IF text[j] = "\n" THEN 0
    ELSE StringEnd(text, j + 1)

ParseString(text, i) ==
    LET j == StringEnd(text, i + 1)
    IN  IF j = 0 THEN ParseFail
        ELSE Parsed(Str(Unescape(SubSeq(text, i + 1, j - 1))), j + 1)

\* the end of the digits that start at i; a number of several digits does
\* not start with 0
RECURSIVE NumberEnd(_, _)
NumberEnd(text, j) ==
    IF j <= Len(text) /\ text[j] \in NumberUnits THEN NumberEnd(text, j + 1) ELSE j

RECURSIVE ParseValue(_, _)
RECURSIVE ParseMembers(_, _, _)
RECURSIVE ParseElements(_, _, _)

ParseValue(text, i0) ==
    LET i == SkipWs(text, i0)
    IN  IF i > Len(text) THEN ParseFail
        ELSE IF text[i] = "{"
        THEN LET j == SkipWs(text, i + 1)
             IN  IF j <= Len(text) /\ text[j] = "}"
                 THEN Parsed(Dict(<<>>), j + 1)
                 ELSE ParseMembers(text, i + 1, Dict(<<>>))
        ELSE IF text[i] = "["
        THEN LET j == SkipWs(text, i + 1)
             IN  IF j <= Len(text) /\ text[j] = "]"
                 THEN Parsed(List(<<>>), j + 1)
                 ELSE ParseElements(text, i + 1, <<>>)
        ELSE IF text[i] = "\"" THEN ParseString(text, i)
        ELSE IF text[i] \in NumberUnits
        THEN LET j == NumberEnd(text, i)
             IN  IF j > i + 1 /\ text[i] = "0" THEN ParseFail
                 ELSE Parsed([Num(text[i]) EXCEPT !.lit = SubSeq(text, i, j - 1)], j)
        ELSE IF text[i] \in {"true", "false"} THEN Parsed(Bool(text[i]), i + 1)
        ELSE IF text[i] = "null" THEN Parsed(None, i + 1)
        ELSE ParseFail

ParseMembers(text, i0, acc) ==
    LET i == SkipWs(text, i0)
    IN  IF i > Len(text) \/ text[i] # "\"" THEN ParseFail
        ELSE LET k == ParseString(text, i)
                 c == SkipWs(text, k.next)
             IN  IF ~k.ok \/ c > Len(text) \/ text[c] # ":" THEN ParseFail
                 ELSE LET v == ParseValue(text, c + 1)
                          e == SkipWs(text, v.next)
                          acc2 == DictSet(acc, k.val.lit, v.val)
                      IN  IF ~v.ok \/ e > Len(text) THEN ParseFail
                          ELSE IF text[e] = "," THEN ParseMembers(text, e + 1, acc2)
                          ELSE IF text[e] = "}" THEN Parsed(acc2, e + 1)
                          ELSE ParseFail

ParseElements(text, i0, acc) ==
    LET v == ParseValue(text, i0)
        e == SkipWs(text, v.next)
    IN  IF ~v.ok \/ e > Len(text) THEN ParseFail
        ELSE IF text[e] = "," THEN ParseElements(text, e + 1, Append(acc, v.val))
        ELSE IF text[e] = "]" THEN Parsed(List(Append(acc, v.val)), e + 1)
        ELSE ParseFail

\* the value parsed from the start of the text is the result if only
\* whitespace follows it
LoadResult(text, r) ==
    IF r.ok /\ SkipWs(text, r.next) = Len(text) + 1
    THEN [ok |-> TRUE, val |-> r.val]
    ELSE [ok |-> FALSE, val |-> None]

\* json.loads(text): ok is FALSE where json.loads raises
JsonLoads(text) == LoadResult(text, ParseValue(text, 1))

\* json.dumps(v), with the default separators ", " and ": "
RECURSIVE JsonDumps(_)
RECURSIVE DumpItems(_, _)
DumpItems(items, isDict) ==
    IF items = <<>> THEN <<>>
    ELSE (IF isDict
          THEN <<"\"">> \o Escape(Head(items)[1]) \o <<"\"", ":", " ">>
          ELSE <<>>)
         \o JsonDumps(Head(items)[2])
         \o (IF Len(items) > 1 THEN <<",", " ">> ELSE <<>>)
         \o DumpItems(Tail(items), isDict)

JsonDumps(v) ==
    CASE v.t = "dict" -> <<"{">> \o DumpItems(v.items, TRUE) \o <<"}">>
      [] v.t = "list" -> <<"[">> \o DumpItems(v.items, FALSE) \o <<"]">>
      [] v.t = "str" -> <<"\"">> \o Escape(v.lit) \o <<"\"">>
      [] v.t = "null" -> <<"null">>
      [] OTHER -> v.lit

\* str(v) of a value that is neither a str, a dict nor None
PyStr(v) ==
    CASE v.t = "bool" -> IF v.lit = <<"true">> THEN <<"True">> ELSE <<"False">>
      [] v.t = "num" -> v.lit
      [] v.t = "null" -> <<"None">>
      [] OTHER -> JsonDumps(v)

(***************************************************************************)
(* Tool-call normalizer: _normalize_tool_calls, _fix_tool_calls and the    *)
(* validation gate _validate_tool_calls.  A tool call is a Python dict.    *)
(***************************************************************************)
K(unit) == <<unit>>

SearchFilesName == <<"search", "_files">>
ListFilesName == <<"list", "_files">>

\* isinstance(name, str) and name.strip()
NonBlankStr(v) == IsStr(v) /\ Strip(v.lit) # <<>>

\* f"call_{secrets.token_hex(8)}"; seed and i stand for the random hex digits
GeneratedId(seed, i) == Str(<<"call_", seed \o ToString(i)>>)

\* json.dumps({"input": v})
WrapInput(v) == JsonDumps(Dict(<< <<K("input"), v>> >>))

\* lines 654-660: the function object built from the call itself
FallbackFunction(call, name) ==
    Dict(<< <<K("name"), name>>,
            <<K("arguments"), DictGet(call, K("arguments"), None)>> >>)

\* lines 654-658: a function given as a string; loaded is json.loads of it
LoadedFunction(call, function, loaded) ==
    IF loaded.ok THEN loaded.val ELSE FallbackFunction(call, function)

\* lines 659-660
FunctionObject(call, function) ==
    IF IsDict(function) THEN function ELSE FallbackFunction(call, Str(PyStr(function)))

\* line 653: function = call.get("function", {})
GivenFunction(call) == DictGet(call, K("function"), Dict(<<>>))

\* lines 653-660: the function object of a call
NormalizeFunction(call) ==
    FunctionObject(call,
                   IF IsStr(GivenFunction(call))
                   THEN LoadedFunction(call, GivenFunction(call),
                                       JsonLoads(GivenFunction(call).lit))
                   ELSE GivenFunction(call))

\* lines 662-695: the arguments of the function object, and the
\* explicit-empty mark
NormalizeArguments(function, allow_partial_args) ==
    LET args == DictGet(function, K("arguments"), None)
        set(v) == DictSet(function, K("arguments"), v)
    IN  IF IsStr(args)
        THEN IF Strip(args.lit) = <<>>
             THEN [function |-> set(Str(<<>>)), explicit_empty |-> TRUE]
             ELSE IF JsonLoads(args.lit).ok \/ allow_partial_args
                  THEN [function |-> set(args), explicit_empty |-> FALSE]
                  ELSE [function |-> set(Str(WrapInput(args))), explicit_empty |-> FALSE]
        ELSE IF IsDict(args)
        THEN [function |-> set(Str(JsonDumps(args))), explicit_empty |-> ~Truthy(args)]
        ELSE IF args = None
        THEN [function |-> set(None), explicit_empty |-> FALSE]
        ELSE IF allow_partial_args
             THEN [function |-> set(Str(PyStr(args))), explicit_empty |-> FALSE]
             ELSE [function |-> set(Str(WrapInput(Str(PyStr(args))))),
                   explicit_empty |-> FALSE]

\* lines 697-703: the normalized call; n is the function object with its
\* arguments and the explicit-empty mark
NormalizedCall(call, i, seed, n) ==
    Dict(<< <<K("id"), DictGet(call, K("id"), GeneratedId(seed, i))>>,
            <<K("type"), Str(<<"function">>)>>,
            <<K("function"), n.function>>,
            <<K("index"), DictGet(call, K("index"), Num(ToString(i)))>>,
            <<K("_explicit_empty_args"),
              IF n.explicit_empty THEN PyTrue ELSE PyFalse>> >>)

\* the loop of _normalize_tool_calls over calls[i..], i counted from 1
RECURSIVE NormalizeFrom(_, _, _, _)
NormalizeFrom(calls, i, allow_partial_args, seed) ==
    IF i > Len(calls) THEN <<>>
    ELSE (IF IsDict(calls[i])
          THEN <<NormalizedCall(calls[i], i - 1, seed,
                                NormalizeArguments(NormalizeFunction(calls[i]),
                                                   allow_partial_args))>>
          ELSE <<>>)
         \o NormalizeFrom(calls, i + 1, allow_partial_args, seed)

normalize_tool_calls(tool_calls, allow_partial_args, seed) ==
    IF ~IsList(tool_calls) THEN tool_calls
    ELSE List(NormalizeFrom(Elems(tool_calls), 1, allow_partial_args, seed))

\* lines 738-743: loaded is json.loads of the argument text
ParsedArguments(loaded) == IF loaded.ok THEN loaded.val ELSE None

\* lines 732-743: the structured arguments of a normalized call; None when
\* they are missing or do not parse
FixArguments(args_raw, explicit_empty) ==
    IF IsStr(args_raw)
    THEN IF Strip(args_raw.lit) = <<>>
         THEN (IF explicit_empty THEN Dict(<<>>) ELSE None)
         ELSE ParsedArguments(JsonLoads(args_raw.lit))
    ELSE IF IsDict(args_raw) THEN args_raw
    ELSE None

\* lines 753-754
WrapNonObject(args) == IF IsDict(args) THEN args ELSE Dict(<< <<K("input"), args>> >>)

\* lines 760-774: per-name defaults
ApplyDefaults(name, args, explicit_empty) ==
    IF name = SearchFilesName /\ ~explicit_empty
    THEN DictSetDefault(DictSetDefault(DictSetDefault(args,
            K("path"), Str(<<".">>)),
            K("regex"), Str(<<".*">>)),
            K("file_pattern"), Str(<<"*.*">>))
    ELSE IF name = ListFilesName /\ ~explicit_empty
    THEN DictSetDefault(DictSetDefault(args, K("path"), Str(<<".">>)),
                        K("recursive"), PyFalse)
    ELSE args

\* bool(call.pop("_explicit_empty_args", False))
ExplicitEmpty(call) == Truthy(DictGet(call, K("_explicit_empty_args"), PyFalse))

\* lines 722-778: the call with its resolved arguments args, or kept = FALSE
\* when the call is dropped
FixedCall(normalized, args) ==
    LET function == DictGet(normalized, K("function"), None)
        name == DictGet(function, K("name"), Str(<<>>))
    IN  IF ~IsDict(function) \/ ~NonBlankStr(name) \/ args = None
        THEN [kept |-> FALSE, call |-> None]
        ELSE [kept |-> TRUE,
              call |-> DictSet(DictPop(normalized, K("_explicit_empty_args")),
                               K("function"),
                               DictSet(function, K("arguments"),
                                       Str(JsonDumps(
                                             ApplyDefaults(name.lit, WrapNonObject(args),
                                                           ExplicitEmpty(normalized))))))]

\* lines 718-778: one normalized call through the fix loop
FixCall(normalized) ==
    FixedCall(normalized,
              FixArguments(DictGet(DictGet(normalized, K("function"), None),
                                   K("arguments"), None),
                           ExplicitEmpty(normalized)))

\* the calls the loop appends for a result
KeptCall(result) == IF result.kept THEN <<result.call>> ELSE <<>>

RECURSIVE FixFrom(_)
FixFrom(calls) ==
    IF calls = <<>> THEN <<>>
    ELSE (IF IsDict(Head(calls)) THEN KeptCall(FixCall(Head(calls))) ELSE <<>>)
         \o FixFrom(Tail(calls))

\* lines 712-779 on the normalized calls
FixNormalized(normalized, allow_partial_args) ==
    IF allow_partial_args
    THEN List([i \in 1..Len(normalized) |->
                 DictPop(normalized[i], K("_explicit_empty_args"))])
    ELSE List(FixFrom(normalized))

fix_tool_calls(tool_calls, allow_partial_args, seed) ==
    IF ~IsList(tool_calls) THEN tool_calls
    ELSE FixNormalized(Elems(normalize_tool_calls(tool_calls, allow_partial_args, seed)),
                       allow_partial_args)

\* lines 477-511: the checks of the validation gate on one call
IdValid(call) == IsStr(DictGet(call, K("id"), None))

ArgsValid(args, require_json_args) ==
    IF IsDict(args) /\ ~require_json_args THEN TRUE
    ELSE IF ~IsStr(args) THEN FALSE
    ELSE require_json_args => JsonLoads(args.lit).ok

CallValid(call, require_json_args) ==
    IF ~IsDict(call) THEN FALSE
    ELSE LET given == IF HasKey(call, K("function"))
                      THEN DictGet(call, K("function"), None)
                      ELSE None
             function == IF given = None /\ IsStr(DictGet(call, K("name"), None))
                         THEN Dict(<< <<K("name"), DictGet(call, K("name"), None)>>,
                                      <<K("arguments"), DictGet(call, K("arguments"), None)>> >>)
                         ELSE given
         IN  /\ IdValid(call)
             /\ DictGet(call, K("type"), None) = Str(<<"function">>)
             /\ IsDict(function)
             /\ NonBlankStr(DictGet(function, K("name"), None))
             /\ ArgsValid(DictGet(function, K("arguments"), None), require_json_args)

validate_tool_calls(tool_calls, require_json_args) ==
    /\ IsList(tool_calls)
    /\ Truthy(tool_calls)
    /\ \A i \in 1..Len(tool_calls.items) :
          CallValid(tool_calls.items[i][2], require_json_args)

(***************************************************************************)
(* Streaming tool-call accumulators: _accumulate_tool_calls and            *)
(* _finalize_tool_call_accumulators.  The accumulator map is a sequence of *)
(* <<index, accumulator>> entries in insertion order.                      *)
(***************************************************************************)
HasIndex(accs, idx) == \E i \in 1..Len(accs) : accs[i][1] = idx

AccAt(accs, idx) == accs[CHOOSE i \in 1..Len(accs) : accs[i][1] = idx][2]

AccPut(accs, idx, acc) ==
    IF HasIndex(accs, idx)
    THEN [i \in 1..Len(accs) |-> IF accs[i][1] = idx THEN <<idx, acc>> ELSE accs[i]]
    ELSE Append(accs, <<idx, acc>>)

\* the fragment is in braces
LooksCompleteUnparsed(trimmed) ==
    /\ trimmed # <<>>
    /\ Head(trimmed) = "{"
    /\ trimmed[Len(trimmed)] = "}"

\* lines 808-811: the fragment is a complete standalone JSON object
LooksComplete(trimmed) ==
    /\ trimmed # <<>>
    /\ Head(trimmed) = "{"
    /\ trimmed[Len(trimmed)] = "}"
    /\ JsonLoads(trimmed).ok

\* lines 805-818: the function object of the accumulator after a fragment
MergeArguments(function, args_piece) ==
    IF ~IsStr(args_piece) THEN function
    ELSE IF args_piece.lit = <<>>
    THEN DictSetDefault(function, K("_explicit_empty_args"), PyTrue)
    ELSE IF LooksComplete(Strip(args_piece.lit))
    THEN DictSet(function, K("arguments"), Str(Strip(args_piece.lit)))
    ELSE DictSet(function, K("arguments"),
                 Str(DictGet(function, K("arguments"), Str(<<>>)).lit \o args_piece.lit))

\* tc.get("function") if it is a dict, else {}
FunctionOf(tc) ==
    IF IsDict(DictGet(tc, K("function"), None)) THEN DictGet(tc, K("function"), None)
    ELSE Dict(<<>>)

\* lines 794-800: a new accumulator
NewAccumulator(tc, idx, name, seed, i) ==
    Dict(<< <<K("id"), DictGet(tc, K("id"), GeneratedId(seed, i))>>,
            <<K("type"), Str(<<"function">>)>>,
            <<K("index"), idx>>,
            <<K("function"),
              Dict(<< <<K("name"), name>>, <<K("arguments"), Str(<<>>)>> >>)>> >>)

\* lines 802-803: the name is set once
NamedFunction(function, name) ==
    IF Truthy(name) /\ ~Truthy(DictGet(function, K("name"), None))
    THEN DictSet(function, K("name"), name)
    ELSE function

\* lines 802-818: the accumulator acc after the fragment
MergedAccumulator(acc, name, args_piece) ==
    DictSet(acc, K("function"),
            MergeArguments(NamedFunction(DictGet(acc, K("function"), None), name),
                           args_piece))

\* lines 787-818: one fragment merged into the accumulators
AccumulateOne(accs, tc, seed, i) ==
    LET idx == DictGet(tc, K("index"), Num("0"))
        name == DictGet(FunctionOf(tc), K("name"), Str(<<>>))
    IN  AccPut(accs, idx,
               MergedAccumulator(IF HasIndex(accs, idx) THEN AccAt(accs, idx)
                                 ELSE NewAccumulator(tc, idx, name, seed, i),
                                 name,
                                 DictGet(FunctionOf(tc), K("arguments"), None)))

RECURSIVE AccumulateFrom(_, _, _, _)
AccumulateFrom(accs, calls, seed, i) ==
    IF i > Len(calls) THEN accs
    ELSE AccumulateFrom(IF IsDict(calls[i])
                        THEN AccumulateOne(accs, calls[i], seed, i)
                        ELSE accs,
                        calls, seed, i + 1)

\* _accumulate_tool_calls(accumulators, tool_calls); a dict is iterated by
\* its keys, which are no dicts
accumulate_tool_calls(accs, tool_calls, seed) ==
    IF IsList(tool_calls) THEN AccumulateFrom(accs, Elems(tool_calls), seed, 1)
    ELSE accs

\* the int of a num
IntOf(v) == CASE v.lit = <<"0">> -> 0
              [] v.lit = <<"1">> -> 1
              [] v.lit = <<"2">> -> 2
              [] OTHER -> 123

\* sorted(accumulators.items(), key=lambda item: item[0])
RECURSIVE SortedAccs(_)
SortedAccs(accs) ==
    IF accs = <<>> THEN <<>>
    ELSE LET m == CHOOSE i \in 1..Len(accs) :
                    \A j \in 1..Len(accs) :
                        \/ IntOf(accs[i][1]) < IntOf(accs[j][1])
                        \/ (IntOf(accs[i][1]) = IntOf(accs[j][1]) /\ i <= j)
         IN  <<accs[m]>> \o SortedAccs(SubSeq(accs, 1, m - 1)
                                       \o SubSeq(accs, m + 1, Len(accs)))

\* lines 846-857: loaded is json.loads of the argument text
CheckedArguments(text, loaded) ==
    IF loaded.ok THEN text ELSE WrapInput(Str(text))

\* lines 833-857: the argument text an accumulator is finalized to; keep is
\* FALSE when the call is dropped for missing arguments
FinalArguments(args_str, explicit_empty) ==
    IF Strip(args_str) = <<>>
    THEN [keep |-> explicit_empty, text |-> <<"{", "}">>]
    ELSE [keep |-> TRUE, text |-> CheckedArguments(args_str, JsonLoads(args_str))]

\* lines 858-863: the accumulator with its final arguments, id, type and index
FinalizedCall(idx, tc, function, final, seed) ==
    LET t1 == DictSet(tc, K("function"), DictSet(function, K("arguments"), Str(final.text)))
    IN  IF ~final.keep THEN [kept |-> FALSE, call |-> None]
        ELSE [kept |-> TRUE,
              call |-> DictSet(DictSet(IF IsStr(DictGet(tc, K("id"), None)) THEN t1
                                       ELSE DictSet(t1, K("id"),
                                                    GeneratedId(seed, IntOf(idx))),
                                       K("type"), Str(<<"function">>)),
                               K("index"), idx)]

\* lines 826-845: function is the function object of the accumulator without
\* its explicit-empty mark
FinalizeFunction(idx, tc, function, explicit_empty, seed) ==
    IF ~NonBlankStr(DictGet(function, K("name"), Str(<<>>)))
       \/ ~IsStr(DictGet(function, K("arguments"), Str(<<>>)))
    THEN [kept |-> FALSE, call |-> None]
    ELSE FinalizedCall(idx, tc, function,
                       FinalArguments(DictGet(function, K("arguments"), Str(<<>>)).lit,
                                      explicit_empty),
                       seed)

\* lines 824-863: one accumulator finalized, or kept = FALSE when dropped
FinalizeCall(idx, tc, seed) ==
    FinalizeFunction(idx, tc, DictPop(FunctionOf(tc), K("_explicit_empty_args")),
                     ExplicitEmpty(FunctionOf(tc)), seed)

RECURSIVE FinalizeFrom(_, _)
FinalizeFrom(sorted, seed) ==
    IF sorted = <<>> THEN <<>>
    ELSE (IF IsDict(Head(sorted)[2])
          THEN KeptCall(FinalizeCall(Head(sorted)[1], Head(sorted)[2], seed))
          ELSE <<>>)
         \o FinalizeFrom(Tail(sorted), seed)

finalize_tool_call_accumulators(accs, seed) == List(FinalizeFrom(SortedAccs(accs), seed))

(***************************************************************************)
(* What a backend may send as the tool_calls of a message.                 *)
(***************************************************************************)
HexSeeds == {"9f", "c4"}

Opt(key, v) == IF v = Absent THEN <<>> ELSE << <<K(key), v>> >>

\* {id, type: "function", function: {name, arguments}}
StandardCall(id, name, args) ==
    Dict(Opt("id", id) \o << <<K("type"), Str(<<"function">>)>> >>
         \o << <<K("function"), Dict(Opt("name", name) \o Opt("arguments", args))>> >>)

\* {name, arguments} with no nested function
ShorthandCall(id, name, args) ==
    Dict(Opt("id", id) \o Opt("name", name) \o Opt("arguments", args))

\* {function: "<name>", arguments}
FunctionStringCall(id, name, args) ==
    Dict(Opt("id", id) \o Opt("function", name) \o Opt("arguments", args))

TxtEmptyObject == <<"{", "}">>
TxtA1 == <<"{", "\"", "a", "\"", ":", "1", "}">>
TxtA1Spaced == <<" ", "{", "\"", "a", "\"", " ", ":", " ", "1", "}", "\n">>
TxtPathSrc == <<"{", "\"", "path", "\"", ":", "\"", "src", "\"", "}">>
TxtPartial == <<"{", "\"", "a", "\"", ":">>
TxtQuoted == <<"\"", "s", "\"">>
TxtArray == <<"[", "1", "]">>

DictA1 == Dict(<< <<K("a"), Num("1")>> >>)
DictPathSrc == Dict(<< <<K("path"), Str(<<"src">>)>> >>)
DictFull == Dict(<< <<K("regex"), Str(<<"x">>)>>, <<K("path"), Str(<<"src">>)>>,
                    <<K("file_pattern"), Str(<<"*.py">>)>>, <<K("recursive"), PyTrue>> >>)

ArgumentValues ==
    { Absent, None,
      Str(<<>>), Str(<<" ">>), Str(TxtEmptyObject), Str(TxtA1), Str(TxtA1Spaced),
      Str(TxtPathSrc), Str(<<"oops">>), Str(TxtPartial), Str(<<"123">>),
      Str(TxtQuoted), Str(<<"null">>), Str(TxtArray),
      Dict(<<>>), DictA1, DictPathSrc, DictFull, Num("123"), PyTrue }

NameValues ==
    { Absent, None, Str(<<" ">>), Str(<<"get_weather">>),
      Str(SearchFilesName), Str(ListFilesName) }

IdValues == { Absent, None, Str(<<>>), Str(<<"call_", "abc">>) }

SingleCalls ==
    { StandardCall(id, name, args) :
        id \in IdValues, name \in NameValues, args \in ArgumentValues }
    \cup { ShorthandCall(id, name, args) :
        id \in IdValues, name \in NameValues \ {Absent}, args \in ArgumentValues }
    \cup { FunctionStringCall(Str(<<"call_", "abc">>), name, args) :
        name \in {Str(<<"get_weather">>), Str(TxtA1), Num("123")},
        args \in ArgumentValues }
    \cup { Str(<<"get_weather">>), Num("123") }

\* calls that lists of two are made of
PairCalls ==
    { StandardCall(Str(<<"call_", "abc">>), Str(<<"get_weather">>), Str(TxtA1)),
      StandardCall(Absent, Str(SearchFilesName), DictPathSrc),
      StandardCall(None, Str(<<"get_weather">>), Str(TxtA1)),
      StandardCall(Str(<<"call_", "abc">>), Str(<<"get_weather">>), Str(TxtPartial)),
      StandardCall(Str(<<"call_", "abc">>), Absent, Str(TxtA1)),
      ShorthandCall(Str(<<"call_", "abc">>), Str(<<"get_weather">>), Str(TxtA1)),
      Num("123") }

BackendToolCalls ==
    { Absent, None, List(<<>>), DictA1, Str(<<"get_weather">>) }
    \cup { List(<<c>>) : c \in SingleCalls }
    \cup { List(<<c, d>>) : c \in PairCalls, d \in PairCalls }

(***************************************************************************)
(* The non-streaming upstream call and the canonical response              *)
(* (proxy_chat_completions, lines 1823-1897).                              *)
(***************************************************************************)
RequestModel == "m"
ApiKeyId == 1

NoResponse == [status |-> 0, kind |-> "none", detail |-> <<>>, content |-> <<>>,
               finish_reason |-> None, usage |-> None, tool_calls |-> Absent]

ErrorResponse(status, kind) ==
    [status |-> status, kind |-> kind, detail |-> <<>>, content |-> <<>>,
     finish_reason |-> None, usage |-> None, tool_calls |-> Absent]

\* _normalize_content_blocks(content), then "".join of the blocks' text
RECURSIVE BlocksText(_)
BlocksText(items) ==
    IF items = <<>> THEN <<>>
    ELSE LET item == Head(items)[2]
         IN  (IF IsDict(item) /\ HasKey(item, K("type")) /\ HasKey(item, K("text"))
              THEN DictGet(item, K("text"), None).lit
              ELSE IF IsStr(item) THEN item.lit
              ELSE <<>>)
             \o BlocksText(Tail(items))

ContentText(content) ==
    IF IsStr(content) THEN content.lit
    ELSE IF IsList(content) THEN BlocksText(content.items)
    ELSE <<>>

IntOrZero(usage, key) == DictGet(usage, K(key), Num("0"))

UsageRecord(usage) ==
    [api_key_id |-> ApiKeyId, model_name |-> payload.model,
     prompt_tokens |-> IntOrZero(usage, "prompt_tokens"),
     completion_tokens |-> IntOrZero(usage, "completion_tokens"),
     total_tokens |-> IntOrZero(usage, "total_tokens")]

\* lines 1863-1872 and 1893-1894: the tool_calls the response carries, Absent
\* when the field is omitted
NonStreamGate(fixed) ==
    IF Truthy(fixed) /\ validate_tool_calls(fixed, TRUE) THEN fixed ELSE Absent

\* an answer of the backend to the non-streaming call
Answer(tool_calls, usage) ==
    [raised |-> FALSE, status_code |-> 200, json_ok |-> TRUE,
     data |-> Dict(<< <<K("id"), Str(<<"chatcmpl-1">>)>>,
                      <<K("choices"),
                        List(<< Dict(<< <<K("message"),
                                         Dict(<< <<K("role"), Str(<<"assistant">>)>>,
                                                 <<K("content"), None>> >>
                                              \o Opt("tool_calls", tool_calls))>>,
                                       <<K("finish_reason"), Str(<<"tool_calls">>)>> >>) >>)>> >>
                   \o Opt("usage", usage))]

UsageValues ==
    { Absent,
      Dict(<< <<K("prompt_tokens"), Num("1")>>, <<K("completion_tokens"), Num("2")>>,
              <<K("total_tokens"), Num("123")>> >>) }

BackendAnswers ==
    { Answer(tc, u) : tc \in BackendToolCalls, u \in UsageValues }
    \cup { [raised |-> TRUE, status_code |-> 0, json_ok |-> FALSE, data |-> None],
           [raised |-> FALSE, status_code |-> 502, json_ok |-> FALSE, data |-> None] }

(***************************************************************************)
(* The tool-call debug buffer: TOOL_CALL_DEBUG_BUFFER is a                 *)
(* deque(maxlen=TOOL_CALL_DEBUG_MAX) (lines 56-60).  An entry is modelled  *)
(* by its source and payload; its timestamp, model name, raw text and the  *)
(* format counts computed from the payload are left out.                   *)
(***************************************************************************)
DefaultDebugMax == 200

\* lines 56-59: int(os.getenv("TOOL_CALL_DEBUG_MAX", "200")), 200 when the
\* text is no integer
DebugMax(raw) == CASE raw = "0" -> 0
                   [] raw = "2" -> 2
                   [] raw = "3" -> 3
                   [] OTHER -> DefaultDebugMax

\* the settings of TOOL_CALL_DEBUG_MAX a process starts with; with a negative
\* one deque(maxlen=...) raises at import and the process does not start
DebugMaxSettings == {"", "0", "2", "3", "abc"}

DebugEntry(source, tool_calls) == [source |-> source, payload |-> tool_calls]

\* deque.append on a deque that never drops an entry
DequeAppendUnbounded(buffer, entry, maxlen) == Append(buffer, entry)

\* deque(maxlen=maxlen).append(entry): a full deque drops its oldest entry
DequeAppend(buffer, entry, maxlen) ==
    IF maxlen = 0 THEN buffer
    ELSE IF Len(buffer) >= maxlen THEN Append(Tail(buffer), entry)
    ELSE Append(buffer, entry)

\* _record_tool_call_debug(source, model, payload): the buffer after it
record_tool_call_debug(buffer, source, tool_calls) ==
    DequeAppend(buffer, DebugEntry(source, tool_calls), TOOL_CALL_DEBUG_MAX)

\* lines 1864-1865 and 1772-1773: recorded when tool_calls is not None
RecordedIfPresent(buffer, source, tool_calls) ==
    IF tool_calls # None THEN record_tool_call_debug(buffer, source, tool_calls)
    ELSE buffer

\* lines 1874-1897: the canonical response and the history of the tool calls
CanonicalResponse(status_code, usage, content_text, finish, tool_calls, normalized, fixed) ==
    /\ usageRecords' = Append(usageRecords, UsageRecord(usage))
    /\ tcInput' = tool_calls
    /\ tcNormalized' = normalized
    /\ tcFixed' = fixed
    /\ TOOL_CALL_DEBUG_BUFFER' =
         RecordedIfPresent(TOOL_CALL_DEBUG_BUFFER, "non_stream_response", tool_calls)
    /\ clientResponse' =
         [status |-> status_code, kind |-> "chat.completion",
          detail |-> <<>>, content |-> content_text,
          finish_reason |-> IF Truthy(finish) THEN finish ELSE Str(<<"stop">>),
          usage |-> UsageRecord(usage),
          tool_calls |-> NonStreamGate(fixed)]

\* lines 1853-1866: message is the message of the first choice, None when
\* there is none
MessageResponse(status_code, usage, finish, message, seed) ==
    LET tool_calls == IF IsDict(message)
                      THEN DictGet(message, K("tool_calls"), None) ELSE None
    IN  CanonicalResponse(status_code, usage,
                          ContentText(IF IsDict(message)
                                      THEN DictGet(message, K("content"), None)
                                      ELSE None),
                          finish, tool_calls,
                          normalize_tool_calls(tool_calls, FALSE, seed),
                          fix_tool_calls(tool_calls, FALSE, seed))

\* lines 1841-1856: data is the decoded body of the backend's answer
DataResponse(status_code, data, seed) ==
    LET given == DictGet(data, K("usage"), None)
        choices == DictGet(data, K("choices"), None)
        first == IF IsList(choices) /\ Truthy(choices) THEN Elems(choices)[1] ELSE None
    IN  MessageResponse(status_code,
                        IF Truthy(given) THEN given ELSE Dict(<<>>),
                        IF first = None THEN None
                        ELSE DictGet(first, K("finish_reason"), None),
                        IF first = None THEN None ELSE DictGet(first, K("message"), None),
                        seed)

\* lines 1823-1897: the backend answers the non-streaming call.  committed:
\* db.commit() of the usage record (line 1850) returns; the handler has no
\* handler for its exception, which the framework answers with status 500
NonStreamUpstream(answer, seed, committed) ==
    /\ pc = "upstream"
    /\ pc' = "done"
    /\ upstreamCalls' = Append(upstreamCalls, payload)
    /\ IF answer.raised
       THEN /\ clientResponse' = ErrorResponse(502, "upstream_exception")
            /\ UNCHANGED <<usageRecords, varsT, TOOL_CALL_DEBUG_BUFFER>>
       ELSE IF ~answer.json_ok
       THEN /\ clientResponse' = ErrorResponse(answer.status_code, "upstream_error")
            /\ UNCHANGED <<usageRecords, varsT, TOOL_CALL_DEBUG_BUFFER>>
       ELSE IF ~committed
       THEN /\ clientResponse' = ErrorResponse(500, "internal_error")
            /\ UNCHANGED <<usageRecords, varsT, TOOL_CALL_DEBUG_BUFFER>>
       ELSE DataResponse(answer.status_code, answer.data, seed)
    /\ UNCHANGED <<varsR, varsK, TOOL_CALL_DEBUG_MAX, inflight, varsS, env, payload,
                   budgetLog>>

(***************************************************************************)
(* The streaming upstream call: _iter_sse (lines 1704-1819).  A line of    *)
(* the backend is a text; what the client is sent is a sequence of events. *)
(***************************************************************************)
DataPrefix == "data: "
DoneMarker == "[DONE]"

DataLine(chunk) == <<DataPrefix>> \o JsonDumps(chunk)
DoneLine == <<DataPrefix, DoneMarker>>

ErrorEvent == [kind |-> "error", choices |-> <<>>, usage |-> Absent]
DoneEvent == [kind |-> "done", choices |-> <<>>, usage |-> Absent]
ChunkEvent(choices, usage) == [kind |-> "chunk", choices |-> choices, usage |-> usage]

\* lines 1789-1798: the tool_calls a finishing choice carries, Absent when the
\* field is omitted
StreamGate(finalized) ==
    IF Truthy(finalized) /\ validate_tool_calls(finalized, TRUE) THEN finalized ELSE Absent

\* the outgoing choice when a finalization leaves the accumulators in place
ChoiceOutAccumulatorsKept(choice, delta, content_text, accs1, finalizing, finalized, gated) ==
    LET finish_reason == DictGet(choice, K("finish_reason"), None)
        role == DictGet(delta, K("role"), None)
        has_content == Strip(content_text) # <<>>
    IN  [raised |-> FALSE,
         accs |-> accs1,
         emit |-> ~(~has_content /\ ~Truthy(role) /\ (~finalizing \/ gated = Absent)
                    /\ finish_reason = Str(<<"tool_calls">>)),
         out |-> [index |-> DictGet(choice, K("index"), Num("0")),
                  content |-> IF has_content THEN Str(content_text) ELSE Absent,
                  role |-> IF Truthy(role) THEN role ELSE Absent,
                  tool_calls |-> IF finalizing THEN gated ELSE Absent,
                  finish_reason |-> IF finish_reason # None THEN finish_reason
                                    ELSE Absent],
         finalized |-> IF finalizing THEN finalized ELSE Absent]

\* lines 1781-1803: the outgoing choice.  finalizing: the accumulators are
\* finalized and cleared; gated: what the gate lets through of them
ChoiceOut(choice, delta, content_text, accs1, finalizing, finalized, gated) ==
    LET finish_reason == DictGet(choice, K("finish_reason"), None)
        role == DictGet(delta, K("role"), None)
        has_content == Strip(content_text) # <<>>
    IN  [raised |-> FALSE,
         accs |-> IF finalizing THEN <<>> ELSE accs1,
         emit |-> ~(~has_content /\ ~Truthy(role) /\ (~finalizing \/ gated = Absent)
                    /\ finish_reason = Str(<<"tool_calls">>)),
         out |-> [index |-> DictGet(choice, K("index"), Num("0")),
                  content |-> IF has_content THEN Str(content_text) ELSE Absent,
                  role |-> IF Truthy(role) THEN role ELSE Absent,
                  tool_calls |-> IF finalizing THEN gated ELSE Absent,
                  finish_reason |-> IF finish_reason # None THEN finish_reason
                                    ELSE Absent],
         finalized |-> IF finalizing THEN finalized ELSE Absent]

\* a choice that leaves no trace
ChoiceSkipped(accs) ==
    [raised |-> FALSE, accs |-> accs, emit |-> FALSE,
     out |-> [index |-> None, content |-> Absent, role |-> Absent,
              tool_calls |-> Absent, finish_reason |-> Absent],
     finalized |-> Absent]

ChoiceRaised(accs) == [ChoiceSkipped(accs) EXCEPT !.raised = TRUE]

\* lines 1789-1798: finalized is the result of the finalizer
ChoiceFinalized(choice, delta, content_text, accs1, finalized) ==
    ChoiceOut(choice, delta, content_text, accs1, TRUE, finalized, StreamGate(finalized))

\* lines 1777-1798: accs1 is the accumulator map after the fragments
ChoiceAccumulated(choice, delta, content_text, fixed, accs1, seed) ==
    IF /\ Strip(content_text) = <<>>
       /\ DictGet(choice, K("finish_reason"), None) = None
       /\ DictGet(delta, K("role"), None) = None
       /\ ~Truthy(fixed)
       /\ accs1 = <<>>
    THEN ChoiceSkipped(accs1)
    ELSE IF DictGet(choice, K("finish_reason"), None) = Str(<<"tool_calls">>)
            /\ accs1 # <<>>
    THEN ChoiceFinalized(choice, delta, content_text, accs1,
                         finalize_tool_call_accumulators(accs1, seed))
    ELSE ChoiceOut(choice, delta, content_text, accs1, FALSE, Absent, Absent)

\* lines 1774-1776: fixed is _fix_tool_calls of the delta's tool_calls
ChoiceFixed(choice, delta, accs, fixed, seed) ==
    IF Truthy(fixed) /\ fixed.t \in {"num", "bool"} THEN ChoiceRaised(accs)
    ELSE ChoiceAccumulated(choice, delta,
                           ContentText(DictGet(delta, K("content"), None)),
                           fixed,
                           IF Truthy(fixed)
                           THEN accumulate_tool_calls(accs, fixed, seed)
                           ELSE accs,
                           seed)

\* lines 1762-1776: delta is choice.get("delta") or {}
ChoiceDelta(choice, delta, accs, seed) ==
    IF ~IsDict(delta) THEN ChoiceRaised(accs)
    ELSE ChoiceFixed(choice, delta, accs,
                     fix_tool_calls(DictGet(delta, K("tool_calls"), None), TRUE, seed),
                     seed)

\* lines 1760-1803: one choice of a chunk.  raised: the handler raises an
\* exception; emit: the choice is appended to the outgoing chunk
StreamChoice(choice, accs, seed) ==
    ChoiceDelta(choice,
                IF Truthy(DictGet(choice, K("delta"), None))
                THEN DictGet(choice, K("delta"), None)
                ELSE Dict(<<>>),
                accs, seed)

\* the results of a choice c and of the choices after it
JoinChoices(c, rest) ==
    [raised |-> rest.raised,
     accs |-> rest.accs,
     out |-> (IF c.emit THEN <<c.out>> ELSE <<>>) \o rest.out,
     finalized |-> (IF c.finalized # Absent THEN <<c.finalized>> ELSE <<>>)
                   \o rest.finalized]

NoChoices(raised, accs) ==
    [raised |-> raised, accs |-> accs, out |-> <<>>, finalized |-> <<>>]

RECURSIVE StreamChoices(_, _, _)
RECURSIVE ChoicesAfter(_, _, _, _)

\* the choices after the choice with result c
ChoicesAfter(c, accs, tail, seed) ==
    IF c.raised THEN NoChoices(TRUE, accs)
    ELSE JoinChoices(c, StreamChoices(tail, c.accs, seed))

\* lines 1759-1803: the choices of a chunk in order
StreamChoices(choices, accs, seed) ==
    IF choices = <<>> THEN NoChoices(FALSE, accs)
    ELSE IF ~IsDict(Head(choices)) THEN StreamChoices(Tail(choices), accs, seed)
    ELSE ChoicesAfter(StreamChoice(Head(choices), accs, seed), accs, Tail(choices), seed)

\* a line that changes nothing
LineSkipped(accs, usage) ==
    [raised |-> FALSE, accs |-> accs, usage |-> usage, events |-> <<>>,
     finalized |-> <<>>]

\* lines 1805-1808: done is the result of the chunk's choices
LineChoices(accs, usage, done) ==
    IF done.raised THEN [LineSkipped(accs, usage) EXCEPT !.raised = TRUE]
    ELSE [raised |-> FALSE, accs |-> done.accs, usage |-> usage,
          events |-> IF done.out # <<>> THEN <<ChunkEvent(done.out, Absent)>> ELSE <<>>,
          finalized |-> done.finalized]

\* lines 1734-1757: chunk is the decoded payload, usage the usage known
\* before it
LineChunk(chunk, accs, usage, seed) ==
    LET usage1 == IF IsDict(chunk) /\ Truthy(DictGet(chunk, K("usage"), None))
                  THEN DictGet(chunk, K("usage"), None)
                  ELSE usage
        choices == IF IsDict(chunk) THEN DictGet(chunk, K("choices"), None) ELSE None
    IN  IF ~IsList(choices) \/ ~Truthy(choices)
        THEN IF usage1 = None THEN LineSkipped(accs, usage1)
             ELSE IF ~IsDict(chunk)
             THEN [LineSkipped(accs, usage1) EXCEPT !.raised = TRUE]
             ELSE [LineSkipped(accs, usage1) EXCEPT
                     !.events = <<ChunkEvent(<<>>, usage1)>>]
        ELSE LineChoices(accs, usage1, StreamChoices(Elems(choices), accs, seed))

\* lines 1728-1732: loaded is json.loads of the line's data part
LineLoaded(loaded, accs, usage, seed) ==
    IF ~loaded.ok THEN LineSkipped(accs, usage)
    ELSE LineChunk(loaded.val, accs, usage, seed)

\* lines 1721-1808: one line of the backend.  events: what the client is sent
StreamLineResult(line, accs, usage, seed) ==
    IF line = <<>> THEN LineSkipped(accs, usage)
    ELSE IF Strip(line) = DoneLine
    THEN [LineSkipped(accs, usage) EXCEPT !.events = <<DoneEvent>>]
    ELSE IF Head(line) # DataPrefix THEN LineSkipped(accs, usage)
    ELSE LineLoaded(JsonLoads(Strip(Tail(line))), accs, usage, seed)

RECURSIVE ChoicesRecorded(_, _, _)
RECURSIVE RecordedAfter(_, _, _, _, _)

\* lines 1772-1776: the delta of a choice is recorded; the choices after it
\* are not reached when its tool_calls make the handler raise
RecordedAfter(buffer, delta, fixed, tail, seed) ==
    IF ~IsDict(delta) THEN buffer
    ELSE IF Truthy(fixed) /\ fixed.t \in {"num", "bool"}
    THEN RecordedIfPresent(buffer, "stream_chunk", DictGet(delta, K("tool_calls"), None))
    ELSE ChoicesRecorded(RecordedIfPresent(buffer, "stream_chunk",
                                           DictGet(delta, K("tool_calls"), None)),
                         tail, seed)

\* lines 1759-1776: the debug buffer after the choices of a chunk
ChoicesRecorded(buffer, choices, seed) ==
    IF choices = <<>> THEN buffer
    ELSE IF ~IsDict(Head(choices)) THEN ChoicesRecorded(buffer, Tail(choices), seed)
    ELSE IF ~Truthy(DictGet(Head(choices), K("delta"), None))
    THEN ChoicesRecorded(buffer, Tail(choices), seed)
    ELSE RecordedAfter(buffer, DictGet(Head(choices), K("delta"), None),
                       IF IsDict(DictGet(Head(choices), K("delta"), None))
                       THEN fix_tool_calls(DictGet(DictGet(Head(choices), K("delta"), None),
                                                   K("tool_calls"), None), TRUE, seed)
                       ELSE None,
                       Tail(choices), seed)

\* lines 1728-1737: loaded is json.loads of the line's data part
LoadedRecorded(buffer, loaded, seed) ==
    IF ~loaded.ok \/ ~IsDict(loaded.val) THEN buffer
    ELSE IF ~IsList(DictGet(loaded.val, K("choices"), None)) THEN buffer
    ELSE ChoicesRecorded(buffer, Elems(DictGet(loaded.val, K("choices"), None)), seed)

\* lines 1721-1776: the debug buffer after one line of the backend
LineRecorded(buffer, line, seed) ==
    IF line = <<>> \/ Strip(line) = DoneLine \/ Head(line) # DataPrefix THEN buffer
    ELSE LoadedRecorded(buffer, JsonLoads(Strip(Tail(line))), seed)

\* line 1713: the backend refused the streamed call
UpstreamRefusedAbove(status_code) == status_code > 400
UpstreamRefused(status_code) == status_code >= 400

\* lines 1707-1718: the backend answers the streaming call with a status
StreamOpen(status_code) ==
    /\ pc = "stream_open"
    /\ upstreamStatus' = status_code
    /\ IF UpstreamRefused(status_code)
       THEN /\ sseOut' = <<ErrorEvent, DoneEvent>>
            /\ pc' = "done"
       ELSE /\ sseOut' = <<>>
            /\ pc' = "streaming"
    /\ upstreamCalls' = Append(upstreamCalls, payload)
    /\ UNCHANGED <<tool_call_accumulators, usage_info, linesRead, streamFinalized>>
    /\ UNCHANGED <<varsR, varsK, varsD, inflight, varsT, clientResponse, usageRecords, env, payload, budgetLog>>

\* the effect of a line with result r
LineEffect(r) ==
    /\ pc' = IF r.raised THEN "raised" ELSE "streaming"
    /\ tool_call_accumulators' = r.accs
    /\ usage_info' = r.usage
    /\ sseOut' = sseOut \o r.events
    /\ streamFinalized' = streamFinalized \o r.finalized

\* lines 1720-1808: the next line of the backend arrives
StreamLine(line, seed) ==
    /\ pc = "streaming"
    /\ linesRead < MaxLines
    /\ LineEffect(StreamLineResult(line, tool_call_accumulators, usage_info, seed))
    /\ TOOL_CALL_DEBUG_BUFFER' = LineRecorded(TOOL_CALL_DEBUG_BUFFER, line, seed)
    /\ linesRead' = linesRead + 1
    /\ UNCHANGED <<varsR, varsK, TOOL_CALL_DEBUG_MAX, inflight, varsT, varsQ,
                   clientResponse, usageRecords, upstreamStatus>>

\* lines 1810-1819: the backend closed the stream.  committed: db.commit()
\* of the usage record returns; the generator has no handler for its exception
StreamClose(committed) ==
    /\ pc = "streaming"
    /\ IF usage_info = None
       THEN /\ pc' = "done"
            /\ UNCHANGED usageRecords
       ELSE IF ~IsDict(usage_info)
       THEN /\ pc' = "raised"
            /\ UNCHANGED usageRecords
       ELSE IF ~committed
       THEN /\ pc' = "commit_failed"
            /\ UNCHANGED usageRecords
       ELSE /\ pc' = "done"
            /\ usageRecords' = Append(usageRecords, UsageRecord(usage_info))
    /\ UNCHANGED <<tool_call_accumulators, usage_info, sseOut, linesRead, streamFinalized,
                   upstreamStatus>>
    /\ UNCHANGED <<varsR, varsK, varsD, inflight, varsT, varsQ, clientResponse>>

\* line 1720: reading the backend's stream raises; nothing in _iter_sse
\* catches the exception, which ends the generator
StreamFail ==
    /\ pc = "streaming"
    /\ pc' = "upstream_failed"
    /\ UNCHANGED <<tool_call_accumulators, usage_info, sseOut, linesRead, streamFinalized,
                   upstreamStatus>>
    /\ UNCHANGED <<varsR, varsK, varsD, inflight, varsT, varsQ, clientResponse, usageRecords>>

(***************************************************************************)
(* What a backend may send on the stream.                                  *)
(***************************************************************************)
CallAbc == Str(<<"call_", "abc">>)

\* a tool-call fragment of a delta
Fragment(index, id, name, args) ==
    Dict(<< <<K("index"), index>> >> \o Opt("id", id)
         \o << <<K("function"), Dict(Opt("name", name) \o Opt("arguments", args))>> >>)

StreamFragments ==
    { Fragment(Num("0"), CallAbc, Str(<<"get_weather">>), Str(<<>>)),
      Fragment(Num("0"), Absent, Absent, Str(TxtPartial)),
      Fragment(Num("0"), Absent, Absent, Str(<<"1", "}">>)),
      Fragment(Num("0"), CallAbc, Str(<<"get_weather">>), Str(<<"123">>)),
      Fragment(Num("1"), Str(<<>>), Str(SearchFilesName), Dict(<<>>)),
      Fragment(Num("0"), Absent, Absent, Str(<<"oops">>)) }

Chunk(choices, usage) ==
    Dict(<< <<K("id"), Str(<<"chatcmpl-1">>)>>, <<K("choices"), List(choices)>> >>
         \o Opt("usage", usage))

Choice(delta, finish_reason) ==
    Dict(<< <<K("index"), Num("0")>>, <<K("delta"), delta>>,
            <<K("finish_reason"), finish_reason>> >>)

UsageObject ==
    Dict(<< <<K("prompt_tokens"), Num("1")>>, <<K("completion_tokens"), Num("2")>>,
            <<K("total_tokens"), Num("123")>> >>)

StreamChunks ==
    { Chunk(<<Choice(Dict(<< <<K("tool_calls"), List(<<f>>)>> >>), None)>>, Absent) :
        f \in StreamFragments }
    \cup { Chunk(<<Choice(Dict(<<>>), Str(<<"tool_calls">>))>>, Absent),
           Chunk(<<Choice(Dict(<<>>), Str(<<"stop">>))>>, Absent),
           Chunk(<<Choice(Dict(<< <<K("tool_calls"),
                                    List(<<Fragment(Num("0"), CallAbc,
                                                    Str(<<"get_weather">>),
                                                    Str(TxtPathSrc))>>)>> >>),
                          Str(<<"tool_calls">>))>>, Absent),
           Chunk(<<Choice(Dict(<< <<K("role"), Str(<<"assistant">>)>>,
                                  <<K("content"), Str(<<"hi">>)>> >>), None)>>, Absent),
           Chunk(<<>>, UsageObject) }

\* decodable payloads of unexpected shape: a payload that is no object, a
\* choice and a delta that are no objects, a usage that is no object and
\* tool_calls that are no list
MalformedChunks ==
    { Num("123"),
      Chunk(<<Str(<<"oops">>)>>, Absent),
      Chunk(<<Choice(Str(<<"oops">>), None)>>, Absent),
      Chunk(<<>>, Num("123")),
      Chunk(<<Choice(Dict(<< <<K("tool_calls"), Str(<<"oops">>)>> >>), None)>>, Absent) }

BackendLines ==
    { DataLine(c) : c \in StreamChunks \cup MalformedChunks }
    \cup { DoneLine, <<>>, <<": ", "ping">>, <<DataPrefix, "oops">> }

BackendStatuses == {200, 400, 500}

\* the answers and the lines a backend gives to the requests of SpecChat
ChatAnswers ==
    { Answer(List(<<StandardCall(CallAbc, Str(<<"get_weather">>), Str(TxtA1))>>),
             UsageObject),
      Answer(Absent, Absent),
      [raised |-> TRUE, status_code |-> 0, json_ok |-> FALSE, data |-> None],
      [raised |-> FALSE, status_code |-> 502, json_ok |-> FALSE, data |-> None] }

ChatLines ==
    { DataLine(Chunk(<<Choice(Dict(<< <<K("content"), Str(<<"hi">>)>> >>), None)>>, Absent)),
      DataLine(Chunk(<<>>, UsageObject)),
      DoneLine }

(***************************************************************************)
(* The chat request: proxy_chat_completions up to the upstream call        *)
(* (lines 1577-1702).  The request body is a record of the keys the        *)
(* handler looks at; a number-like field carries its Python type.          *)
(***************************************************************************)
TInt(n) == [t |-> "int", n |-> n, d |-> 1, s |-> ""]
TFloat(n, d) == [t |-> "float", n |-> n, d |-> d, s |-> ""]
TStr(s) == [t |-> "str", n |-> 0, d |-> 1, s |-> s]
TBool(b) == [t |-> "bool", n |-> IF b THEN 1 ELSE 0, d |-> 1, s |-> ""]
TNone == [t |-> "null", n |-> 0, d |-> 1, s |-> ""]
TAbsent == [t |-> "absent", n |-> 0, d |-> 1, s |-> ""]

\* bool(v)
TruthyT(v) ==
    CASE v.t \in {"int", "float", "bool"} -> v.n # 0
      [] v.t = "str" -> v.s # ""
      [] OTHER -> FALSE

\* int(x) of the rational n/d: truncation toward zero
Trunc(n, d) == IF n >= 0 THEN n \div d ELSE -((-n) \div d)

\* float(text) as the rational n/d; ok is FALSE where float() raises
FloatOfText(s) ==
    CASE s = "0" -> [ok |-> TRUE, n |-> 0, d |-> 1]
      [] s = "3" -> [ok |-> TRUE, n |-> 3, d |-> 1]
      [] s = "4.0" -> [ok |-> TRUE, n |-> 4, d |-> 1]
      [] s = "0.5" -> [ok |-> TRUE, n |-> 1, d |-> 2]
      [] s = "-2" -> [ok |-> TRUE, n |-> -2, d |-> 1]
      [] s = "2.7" -> [ok |-> TRUE, n |-> 27, d |-> 10]
      [] s = "12" -> [ok |-> TRUE, n |-> 12, d |-> 1]
      [] s = "20" -> [ok |-> TRUE, n |-> 20, d |-> 1]
      [] s = "100" -> [ok |-> TRUE, n |-> 100, d |-> 1]
      [] OTHER -> [ok |-> FALSE, n |-> 0, d |-> 1]

\* texts that str.strip() empties
BlankTexts == {"", " "}

\* int(float(value)); ok is FALSE where it raises
IntOfFloat(value) ==
    CASE value.t = "int" -> [ok |-> TRUE, n |-> value.n]
      [] value.t = "float" -> [ok |-> TRUE, n |-> Trunc(value.n, value.d)]
      [] value.t = "str" ->
           LET f == FloatOfText(value.s)
           IN  [ok |-> f.ok, n |-> Trunc(f.n, f.d)]
      [] OTHER -> [ok |-> FALSE, n |-> 0]

DefaultMaxTokens == 2048

\* _coerce_max_tokens(value, default)
coerce_max_tokens(value, default) ==
    IF value.t \in {"bool", "null", "absent"} THEN default
    ELSE IF value.t = "str" /\ value.s \in BlankTexts THEN default
    ELSE IF ~IntOfFloat(value).ok THEN default
    ELSE IF IntOfFloat(value).n >= 1 THEN IntOfFloat(value).n
    ELSE 1

\* _coerce_positive_int(value, fallback)
coerce_positive_int(value, fallback) ==
    IF value.t \in {"bool", "null", "absent"} THEN fallback
    ELSE IF value.t = "str" /\ value.s \in BlankTexts THEN fallback
    ELSE IF ~IntOfFloat(value).ok THEN fallback
    ELSE IF IntOfFloat(value).n >= 1 THEN IntOfFloat(value).n
    ELSE fallback

\* an environment setting that is not set; os.getenv(key) or ... skips an
\* empty one too
Unset == ""

DefaultMaxModelLen == 129000

\* _get_int_env_setting(keys, fallback): raws are the settings of the keys
\* in order
RECURSIVE get_int_env_setting(_, _)
get_int_env_setting(raws, fallback) ==
    IF raws = <<>> THEN fallback
    ELSE IF Head(raws) = Unset THEN get_int_env_setting(Tail(raws), fallback)
    ELSE coerce_positive_int(TStr(Head(raws)), fallback)

\* str.lower() on the flag settings
FlagLower(raw) == CASE raw = "TRUE" -> "true"
                    [] raw = "False" -> "false"
                    [] OTHER -> raw

\* True if the flag is unset, else raw.lower() in {"1", "true", "yes"}
EnvFlag(raw) == raw = Unset \/ FlagLower(raw) \in {"1", "true", "yes"}

\* lines 1647-1653: the divisor of the estimate, the rational n/d
CharsPerToken(raw) ==
    LET f == FloatOfText(raw)
    IN  IF raw = Unset \/ ~f.ok \/ f.n <= 0 THEN [n |-> 4, d |-> 1]
        ELSE [n |-> f.n, d |-> f.d]

\* str(v)
TextOf(v) == IF IsStr(v) THEN v.lit ELSE PyStr(v)

\* lines 412-419: the text parts of a list content
RECURSIVE ContentParts(_)
ContentParts(items) ==
    IF items = <<>> THEN <<>>
    ELSE LET item == Head(items)[2]
         IN  (IF IsDict(item)
              THEN IF DictGet(item, K("type"), None) = Str(<<"text">>)
                   THEN TextOf(DictGet(item, K("text"), Str(<<>>)))
                   ELSE <<>>
              ELSE IF IsStr(item) THEN item.lit
              ELSE <<>>)
             \o ContentParts(Tail(items))

\* lines 408-424: the text of a message's content
MessageText(content) ==
    IF IsStr(content) THEN content.lit
    ELSE IF IsList(content) THEN ContentParts(content.items)
    ELSE IF content = None THEN <<>>
    ELSE PyStr(content)

RECURSIVE NormalizedMessages(_)
NormalizedMessages(msgs) ==
    IF msgs = <<>> THEN <<>>
    ELSE LET msg == Head(msgs)
             role == DictGet(msg, K("role"), None)
             text == MessageText(DictGet(msg, K("content"), None))
         IN  (IF IsDict(msg) /\ Truthy(role)
              THEN <<Dict(<< <<K("role"), role>>, <<K("content"), Str(text)>> >>)>>
              ELSE <<>>)
             \o NormalizedMessages(Tail(msgs))

\* _messages_to_string(messages)
messages_to_string(messages) ==
    IF IsList(messages) THEN List(NormalizedMessages(Elems(messages))) ELSE List(<<>>)

\* how many characters a unit of text has
UnitLen(u) == CASE u = "hi" -> 2
                [] u = "None" -> 4
                [] u = "True" -> 4
                [] u = "False" -> 5
                [] u = "123" -> 3
                [] u = "system" -> 6
                [] u = "long text" -> 517984
                [] OTHER -> 1

\* len(text)
RECURSIVE CharLen(_)
CharLen(text) == IF text = <<>> THEN 0 ELSE UnitLen(Head(text)) + CharLen(Tail(text))

\* lines 910-917: total_chars and msg_count over the dict messages
RECURSIVE CountMessages(_)
CountMessages(msgs) ==
    IF msgs = <<>> THEN [chars |-> 0, count |-> 0]
    ELSE LET rest == CountMessages(Tail(msgs))
             content == DictGet(Head(msgs), K("content"), Str(<<>>))
         IN  IF IsDict(Head(msgs))
             THEN [chars |-> CharLen(TextOf(content)) + rest.chars,
                   count |-> 1 + rest.count]
             ELSE rest

\* math.ceil(a / b) for a >= 0 and b > 0
CeilDiv(a, b) == (a + b - 1) \div b

NoEstimate == [known |-> FALSE, tokens |-> 0]

\* the estimate with the overhead of a message taken off
estimate_prompt_tokens_overhead_off(messages, cpt) ==
    IF ~IsList(messages) THEN NoEstimate
    ELSE LET t == CountMessages(Elems(messages))
             tokens == CeilDiv(t.chars * cpt.d, cpt.n) - t.count * 4
         IN  IF t.count = 0 THEN [known |-> TRUE, tokens |-> 0]
             ELSE [known |-> TRUE, tokens |-> IF tokens > 0 THEN tokens ELSE 0]

\* _estimate_prompt_tokens(messages, chars_per_token); known is FALSE where
\* it returns None
estimate_prompt_tokens(messages, cpt) ==
    IF ~IsList(messages) THEN NoEstimate
    ELSE LET t == CountMessages(Elems(messages))
         IN  IF t.count = 0 THEN [known |-> TRUE, tokens |-> 0]
             ELSE [known |-> TRUE,
                   tokens |-> CeilDiv(t.chars * cpt.d, cpt.n) + t.count * 4]

\* line 1663: if available < 1
BudgetRejectsBelowZero(available) == available < 0
BudgetRejects(available) == available < 1

\* lines 1671-1673: the grant after the cap
CappedGrantUncapped(max_tokens, available) == max_tokens
CappedGrant(max_tokens, available) ==
    IF max_tokens > available
    THEN IF available > 1 THEN available ELSE 1
    ELSE max_tokens

\* _sanitize_stream_options(options); None where the key is then removed
sanitize_stream_options(options) ==
    IF IsDict(options) /\ DictGet(options, K("include_usage"), None).t = "bool"
    THEN Dict(<< <<K("include_usage"), DictGet(options, K("include_usage"), None)>> >>)
    ELSE None

\* the api_keys table with the owning user of each key
ApiKeyTable ==
    [k \in {"sk-live", "sk-off", "sk-banned", "sk-orphan"} |->
       [enabled |-> k # "sk-off", has_user |-> k # "sk-orphan",
        user_active |-> k # "sk-banned"]]

BearerPrefix == "Bearer "

\* the authorization header read before the API-key header
extract_api_key_authorization_first(headers) ==
    IF headers.authorization # <<>>
    THEN IF Head(headers.authorization) = BearerPrefix
         THEN Tail(headers.authorization)
         ELSE headers.authorization
    ELSE headers.x_api_key

\* _extract_api_key(request): the credential, <<>> where it returns nothing
extract_api_key(headers) ==
    IF headers.x_api_key # <<>> THEN headers.x_api_key
    ELSE IF headers.authorization # <<>>
    THEN IF Head(headers.authorization) = BearerPrefix
         THEN Tail(headers.authorization)
         ELSE headers.authorization
    ELSE <<>>

\* the guard without the test of the enabled flag
AuthStatusEnabledUntested(headers) ==
    LET key == extract_api_key(headers)
    IN  IF key = <<>> THEN 401
        ELSE IF Len(key) # 1 \/ key[1] \notin DOMAIN ApiKeyTable THEN 401
        ELSE IF ApiKeyTable[key[1]].has_user /\ ~ApiKeyTable[key[1]].user_active THEN 403
        ELSE 0

\* lines 1629-1638: 0 when the credential passes, else the status
AuthStatus(headers) ==
    LET key == extract_api_key(headers)
    IN  IF key = <<>> THEN 401
        ELSE IF Len(key) # 1 \/ key[1] \notin DOMAIN ApiKeyTable THEN 401
        ELSE IF ~ApiKeyTable[key[1]].enabled THEN 401
        ELSE IF ApiKeyTable[key[1]].has_user /\ ~ApiKeyTable[key[1]].user_active THEN 403
        ELSE 0

\* "text/event-stream" in client_accept
AcceptsEventStream(accept) ==
    accept \in {"text/event-stream", "application/json, text/event-stream"}

BlockedKeys == {"strict", "response_format"}
ToolKeys == {"tools", "tool_choice", "functions", "function_call"}

\* the sanitizer reading max_output_tokens before max_tokens
SanitizedPayloadOutputFirst(body, allow_tools) ==
    LET aliased == IF body.max_output_tokens.t # "absent" THEN body.max_output_tokens
                   ELSE IF body.max_tokens.t # "absent" THEN body.max_tokens
                   ELSE body.max_completion_tokens
    IN  [body EXCEPT
           !.other = @ \ (BlockedKeys \cup (IF allow_tools THEN {} ELSE ToolKeys)),
           !.max_output_tokens = TAbsent,
           !.max_completion_tokens = TAbsent,
           !.max_tokens = TInt(coerce_max_tokens(aliased, DefaultMaxTokens))]

\* lines 1601-1627: the body after the sanitizer
SanitizedPayload(body, allow_tools) ==
    LET aliased == IF body.max_tokens.t # "absent" THEN body.max_tokens
                   ELSE IF body.max_output_tokens.t # "absent" THEN body.max_output_tokens
                   ELSE body.max_completion_tokens
    IN  [body EXCEPT
           !.other = @ \ (BlockedKeys \cup (IF allow_tools THEN {} ELSE ToolKeys)),
           !.max_output_tokens = TAbsent,
           !.max_completion_tokens = TAbsent,
           !.max_tokens = TInt(coerce_max_tokens(aliased, DefaultMaxTokens))]

\* the negotiation without the force-stream override
NegotiatedStreamUnforced(body, accept, force_stream) ==
    TruthyT(body.stream) /\ AcceptsEventStream(accept)

\* lines 1684-1702: the body after the stream negotiation
NegotiatedStream(body, accept, force_stream) ==
    TruthyT(body.stream) /\ (AcceptsEventStream(accept) \/ force_stream)

NegotiatedPayload(body, accept, force_stream) ==
    IF NegotiatedStream(body, accept, force_stream)
    THEN [body EXCEPT
            !.stream = TBool(TRUE),
            !.stream_options =
               IF sanitize_stream_options(body.stream_options) = None THEN Absent
               ELSE sanitize_stream_options(body.stream_options)]
    ELSE [body EXCEPT
            !.stream = IF TruthyT(body.stream) THEN TAbsent ELSE @,
            !.stream_options = Absent]

NoBudget == [reached |-> FALSE, known |-> FALSE, prompt_tokens_est |-> 0,
             max_model_len |-> 0, granted |-> 0, messages |-> Absent]

NoPayload == [model |-> Absent, messages |-> Absent, max_tokens |-> TAbsent,
              max_output_tokens |-> TAbsent, max_completion_tokens |-> TAbsent,
              stream |-> TAbsent, stream_options |-> Absent, other |-> {}]

\* the body of req is JSON and names a model
GuardReachedUnread(req) ==
    /\ req.raw = "json"
    /\ Truthy(req.body.model)

\* lines 1580-1599: the body of req arrived, is not empty, is JSON and names a
\* model, so that the handler goes on to the credential
GuardReached(req) ==
    /\ ~req.disconnected
    /\ req.raw = "json"
    /\ Truthy(req.body.model)

\* POST /proxy/chat/completions, up to the upstream call
ReceiveChat(req) ==
    /\ pc = "idle"
    /\ LET body == req.body
           sanitized == SanitizedPayload(body, EnvFlag(env.ALLOW_TOOLS))
           auth == AuthStatus(req.headers)
           name == IF IsStr(body.model) /\ Len(body.model.lit) = 1
                   THEN body.model.lit[1] ELSE "unknown"
           out == ResolveOutcome(name, primaryIp)
           with_messages ==
               IF sanitized.messages # Absent
               THEN [sanitized EXCEPT !.messages = messages_to_string(@)]
               ELSE sanitized
           max_model_len == get_int_env_setting(env.MAX_MODEL_LEN, DefaultMaxModelLen)
           est == estimate_prompt_tokens(IF with_messages.messages = Absent THEN None
                                         ELSE with_messages.messages,
                                         CharsPerToken(env.TOKEN_CHARS_PER_TOKEN))
           available == max_model_len - est.tokens
           budgeted ==
               IF est.known
               THEN [with_messages EXCEPT
                       !.max_tokens = TInt(CappedGrant(@.n, available))]
               ELSE with_messages
           forwarded == NegotiatedPayload(budgeted, req.headers.accept,
                                          EnvFlag(env.FORCE_STREAM))
           reject(status, kind) ==
               /\ pc' = "done"
               /\ clientResponse' = ErrorResponse(status, kind)
               /\ UNCHANGED <<payload, budgetLog, ROUND_ROBIN_STATE, resolveLog>>
       IN  IF req.disconnected THEN reject(499, "client_disconnected")
           ELSE IF req.raw = "empty" THEN reject(400, "empty_body")
           ELSE IF req.raw = "garbage" THEN reject(400, "invalid_json")
           ELSE IF ~Truthy(body.model) THEN reject(400, "missing_model")
           ELSE IF auth # 0 THEN reject(auth, "auth")
           ELSE /\ ROUND_ROBIN_STATE' = ResolveState(name, out)
                /\ resolveLog' = [resolveLog EXCEPT ![name] = Append(@, out)]
                /\ IF out.status = 404
                   THEN /\ pc' = "done"
                        /\ clientResponse' = ErrorResponse(404, "model_not_found")
                        /\ UNCHANGED <<payload, budgetLog>>
                   ELSE /\ budgetLog' =
                             [reached |-> TRUE, known |-> est.known,
                              prompt_tokens_est |-> est.tokens,
                              max_model_len |-> max_model_len,
                              granted |-> with_messages.max_tokens.n,
                              messages |-> with_messages.messages]
                        /\ IF est.known /\ BudgetRejects(available)
                           THEN /\ pc' = "done"
                                /\ clientResponse' =
                                     [ErrorResponse(400, "prompt_too_large")
                                        EXCEPT !.detail = <<est.tokens, max_model_len>>]
                                /\ UNCHANGED payload
                           ELSE /\ pc' = IF TruthyT(forwarded.stream)
                                         THEN "stream_open" ELSE "upstream"
                                /\ payload' = forwarded
                                /\ UNCHANGED clientResponse
    /\ keyLookups' = IF GuardReached(req) /\ extract_api_key(req.headers) # <<>>
                     THEN Append(keyLookups, extract_api_key(req.headers))
                     ELSE keyLookups
    /\ UNCHANGED <<models, servers, primaryIp, env, usageRecords, upstreamCalls>>
    /\ UNCHANGED <<varsT, varsS, last_used_at, varsD, inflight>>

(***************************************************************************)
(* What a client may send, and the settings of the process.                *)
(***************************************************************************)
DefaultEnv ==
    [ALLOW_TOOLS |-> Unset, FORCE_STREAM |-> Unset,
     MAX_MODEL_LEN |-> <<Unset, Unset, Unset>>, TOKEN_CHARS_PER_TOKEN |-> Unset]

\* MAX_MODEL_LEN holds the settings VLLM_MAX_MODEL_LEN, MAX_MODEL_LEN and
\* MODEL_MAX_LEN in this order
EnvSettings ==
    { DefaultEnv,
      [DefaultEnv EXCEPT !.MAX_MODEL_LEN = <<"12", "20", Unset>>],
      [ALLOW_TOOLS |-> "false", FORCE_STREAM |-> "False",
       MAX_MODEL_LEN |-> <<"12", Unset, Unset>>, TOKEN_CHARS_PER_TOKEN |-> "0.5"],
      [ALLOW_TOOLS |-> "1", FORCE_STREAM |-> "TRUE",
       MAX_MODEL_LEN |-> <<Unset, "12", "20">>, TOKEN_CHARS_PER_TOKEN |-> "3"],
      [DefaultEnv EXCEPT !.MAX_MODEL_LEN = <<"oops", "12", Unset>>,
                         !.TOKEN_CHARS_PER_TOKEN = "-2"],
      [DefaultEnv EXCEPT !.MAX_MODEL_LEN = <<Unset, Unset, "0">>,
                         !.TOKEN_CHARS_PER_TOKEN = "abc"] }

Message(role, content) == Dict(<< <<K("role"), Str(<<role>>)>>, <<K("content"), content>> >>)

MessageValues ==
    { Absent,
      Str(<<"hi">>),
      List(<<Message("user", Str(<<"hi">>))>>),
      List(<<Message("system", Str(<<"a", "b", "c", "d", "e", "f", "g", "h">>)),
             Message("user",
                     List(<< Dict(<< <<K("type"), Str(<<"text">>)>>,
                                     <<K("text"), Str(<<"hi">>)>> >>),
                             Str(<<"a">>),
                             Dict(<< <<K("type"), Str(<<"image">>)>> >>) >>))>>),
      List(<<Message("user", Str(<<"long text">>))>>),
      List(<< Dict(<< <<K("content"), Str(<<"hi">>)>> >>),
              Num("1"),
              Message("user", Num("123")) >>) }

\* <<max_tokens, max_output_tokens, max_completion_tokens>> of a body
TokenFields ==
    { <<TAbsent, TAbsent, TAbsent>>,
      <<TInt(200000), TAbsent, TAbsent>>,
      <<TInt(5), TAbsent, TAbsent>>,
      <<TInt(0), TAbsent, TAbsent>>,
      <<TStr("100"), TAbsent, TAbsent>>,
      <<TStr("oops"), TAbsent, TAbsent>>,
      <<TStr(" "), TAbsent, TAbsent>>,
      <<TFloat(27, 10), TAbsent, TAbsent>>,
      <<TBool(TRUE), TAbsent, TAbsent>>,
      <<TNone, TInt(500), TAbsent>>,
      <<TAbsent, TInt(500), TInt(7)>>,
      <<TAbsent, TAbsent, TInt(7)>>,
      <<TInt(5), TInt(500), TAbsent>> }

LiveHeaders == [x_api_key |-> <<"sk-live">>, authorization |-> <<>>, accept |-> ""]

HeaderValues ==
    { LiveHeaders,
      [LiveHeaders EXCEPT !.x_api_key = <<>>],
      [LiveHeaders EXCEPT !.x_api_key = <<>>, !.authorization = <<BearerPrefix, "sk-live">>],
      [LiveHeaders EXCEPT !.x_api_key = <<>>, !.authorization = <<"sk-orphan">>],
      [LiveHeaders EXCEPT !.x_api_key = <<>>, !.authorization = <<BearerPrefix>>],
      [LiveHeaders EXCEPT !.x_api_key = <<"sk-off">>, !.authorization = <<BearerPrefix, "sk-live">>],
      [LiveHeaders EXCEPT !.x_api_key = <<"sk-banned">>],
      [LiveHeaders EXCEPT !.x_api_key = <<"sk-none">>] }

\* headers without a credential, and with the credential of a disabled account
RejectedHeaders ==
    { [LiveHeaders EXCEPT !.x_api_key = <<>>],
      [LiveHeaders EXCEPT !.x_api_key = <<"sk-banned">>] }

BaseBody ==
    [model |-> Str(<<"m">>),
     messages |-> List(<<Message("user", Str(<<"hi">>))>>),
     max_tokens |-> TAbsent, max_output_tokens |-> TAbsent,
     max_completion_tokens |-> TAbsent,
     stream |-> TAbsent, stream_options |-> Absent, other |-> {}]

BaseRequest ==
    [disconnected |-> FALSE, raw |-> "json", body |-> BaseBody, headers |-> LiveHeaders]

StreamOptionValues ==
    { Absent,
      Dict(<< <<K("include_usage"), PyTrue>>, <<K("extra"), Num("1")>> >>),
      Dict(<< <<K("include_usage"), Str(<<"yes">>)>> >>),
      Str(<<"yes">>) }

ChatRequests ==
    { [BaseRequest EXCEPT !.body.messages = m, !.body.max_tokens = f[1],
                          !.body.max_output_tokens = f[2],
                          !.body.max_completion_tokens = f[3]] :
        m \in MessageValues, f \in TokenFields }
    \cup { [BaseRequest EXCEPT !.headers = h] : h \in HeaderValues }
    \cup { [BaseRequest EXCEPT !.body.model = v] :
             v \in {Absent, Str(<<>>), Str(<<"n">>), Str(<<"unknown">>)} }
    \cup { [BaseRequest EXCEPT !.body.stream = s, !.body.stream_options = o,
                               !.headers.accept = a] :
             s \in {TBool(TRUE), TBool(FALSE)}, o \in StreamOptionValues,
             a \in {"", "text/event-stream"} }
    \cup { [BaseRequest EXCEPT !.body.other = {"strict", "tools", "temperature"}],
           [BaseRequest EXCEPT !.disconnected = TRUE],
           [BaseRequest EXCEPT !.raw = "empty"],
           [BaseRequest EXCEPT !.raw = "garbage"] }
    \cup { [BaseRequest EXCEPT !.raw = r, !.headers = h] :
             r \in {"empty", "garbage"}, h \in RejectedHeaders }
    \cup { [BaseRequest EXCEPT !.body.model = Absent, !.headers = h] :
             h \in RejectedHeaders }

\* the forwarded body of a request that asked for nothing special
PlainPayload == [BaseBody EXCEPT !.max_tokens = TInt(DefaultMaxTokens)]

(***************************************************************************)
(* POST /proxy/responses: proxy_responses (lines 1900-2052).  The request  *)
(* carries the body of a chat request and the input key of the body.       *)
(***************************************************************************)
\* lines 1941-1948: the messages of the chat call
ResponsesMessages(messages, input_text) ==
    IF Truthy(messages) THEN messages
    ELSE List(<<Dict(<< <<K("role"), Str(<<"user">>)>>,
                        <<K("content"), IF IsStr(input_text) THEN input_text
                                        ELSE Str(<<>>)>> >>)>>)

\* line 1952: payload.get("max_output_tokens") or payload.get("max_tokens")
ResponsesRawMaxTokens(body) ==
    IF TruthyT(body.max_output_tokens) THEN body.max_output_tokens
    ELSE IF body.max_tokens.t = "absent" THEN TNone ELSE body.max_tokens

\* lines 1934-1939: stream, after the negotiation with the client
ResponsesStream(body, accept, force_stream) ==
    TruthyT(body.stream) /\ (AcceptsEventStream(accept) \/ force_stream)

\* lines 1953-1958: chat_payload
ResponsesPayload(req, force_stream) ==
    [NoPayload EXCEPT
       !.model = req.body.model,
       !.messages = messages_to_string(ResponsesMessages(req.body.messages, req.input)),
       !.max_tokens = TInt(coerce_max_tokens(ResponsesRawMaxTokens(req.body),
                                             DefaultMaxTokens)),
       !.stream = TBool(ResponsesStream(req.body, req.headers.accept, force_stream))]

\* lines 1903-1968: the handler up to the first call of the backend
ReceiveResponses(req) ==
    /\ pc = "idle"
    /\ LET auth == AuthStatus(req.headers)
           name == IF IsStr(req.body.model) /\ Len(req.body.model.lit) = 1
                   THEN req.body.model.lit[1] ELSE "unknown"
           out == ResolveOutcome(name, primaryIp)
           reject(status, kind) ==
               /\ pc' = "done"
               /\ clientResponse' = ErrorResponse(status, kind)
               /\ UNCHANGED <<payload, ROUND_ROBIN_STATE, resolveLog>>
       IN  IF req.disconnected THEN reject(499, "client_disconnected")
           ELSE IF req.raw = "empty" THEN reject(400, "empty_body")
           ELSE IF req.raw = "garbage" THEN reject(400, "invalid_json")
           ELSE IF ~Truthy(req.body.model) THEN reject(400, "missing_model")
           ELSE IF auth # 0 THEN reject(auth, "auth")
           ELSE /\ ROUND_ROBIN_STATE' = ResolveState(name, out)
                /\ resolveLog' = [resolveLog EXCEPT ![name] = Append(@, out)]
                /\ IF out.status = 404
                   THEN /\ pc' = "done"
                        /\ clientResponse' = ErrorResponse(404, "model_not_found")
                        /\ UNCHANGED payload
                   ELSE /\ pc' = "responses_upstream"
                        /\ payload' = ResponsesPayload(req, EnvFlag(env.FORCE_STREAM))
                        /\ UNCHANGED clientResponse
    /\ keyLookups' = IF GuardReached(req) /\ extract_api_key(req.headers) # <<>>
                     THEN Append(keyLookups, extract_api_key(req.headers))
                     ELSE keyLookups
    /\ UNCHANGED <<models, servers, primaryIp, env, usageRecords, upstreamCalls,
                   budgetLog>>
    /\ UNCHANGED <<varsT, varsS, last_used_at, varsD, inflight>>

\* lines 1991-2006 and 2013-2023: the text of the first choice of data;
\* raised when a value that is read with .get is no object
ResponsesText(data) ==
    LET choices == IF IsDict(data) THEN DictGet(data, K("choices"), None) ELSE None
        first == IF IsList(choices) /\ Truthy(choices) THEN Elems(choices)[1] ELSE None
        given == IF IsDict(first) THEN DictGet(first, K("message"), None) ELSE None
        msg == IF Truthy(given) THEN given ELSE Dict(<<>>)
        content == IF IsDict(msg) THEN DictGet(msg, K("content"), None) ELSE None
        block == IF IsList(content) /\ Truthy(content) THEN Elems(content)[1] ELSE None
        text == IF block # None THEN DictGet(block, K("text"), None) ELSE content
    IN  IF IsList(choices) /\ Truthy(choices)
           /\ (~IsDict(first) \/ ~IsDict(msg) \/ (block # None /\ ~IsDict(block)))
        THEN [raised |-> TRUE, text |-> <<>>]
        ELSE [raised |-> FALSE, text |-> IF IsStr(text) THEN text.lit ELSE <<>>]

TextDeltaEvent(text) ==
    [kind |-> "response.output_text.delta", choices |-> <<>>, usage |-> Absent,
     delta |-> text]
CompletedEvent == [kind |-> "response.completed", choices |-> <<>>, usage |-> Absent]

\* lines 1989-2008: the events of _iter_responses_sse for the second answer
ResponsesEvents(second) ==
    IF ~second.json_ok THEN <<CompletedEvent>>
    ELSE IF ResponsesText(second.data).raised THEN <<>>
    ELSE (IF ResponsesText(second.data).text # <<>>
          THEN <<TextDeltaEvent(ResponsesText(second.data).text)>> ELSE <<>>)
         \o <<CompletedEvent>>

\* lines 2012-2052: the answer to the client of the call without streaming
ResponsesAnswer(answer, committed) ==
    IF ~answer.json_ok \/ ~IsDict(answer.data) \/ ResponsesText(answer.data).raised
    THEN /\ clientResponse' = ErrorResponse(500, "internal_error")
         /\ UNCHANGED usageRecords
    ELSE IF ~committed
    THEN /\ clientResponse' = ErrorResponse(500, "internal_error")
         /\ UNCHANGED usageRecords
    ELSE LET given == DictGet(answer.data, K("usage"), None)
             usage == IF Truthy(given) THEN given ELSE Dict(<<>>)
         IN  /\ usageRecords' = Append(usageRecords, UsageRecord(usage))
             /\ clientResponse' =
                  [status |-> answer.status_code, kind |-> "response",
                   detail |-> <<>>, content |-> ResponsesText(answer.data).text,
                   finish_reason |-> None, usage |-> UsageRecord(usage),
                   tool_calls |-> Absent]

\* lines 1970-2052: the calls of the backend and the answer to the client.
\* first is the answer to the call of line 1971, second the answer to the
\* call of line 1982 that a streamed request makes in addition; committed:
\* db.commit() of the usage record (line 2032) returns
ResponsesUpstream(first, second, committed) ==
    /\ pc = "responses_upstream"
    /\ pc' = "done"
    /\ IF first.raised
       THEN /\ upstreamCalls' = Append(upstreamCalls, payload)
            /\ clientResponse' = ErrorResponse(502, "upstream_exception")
            /\ UNCHANGED <<usageRecords, sseOut>>
       ELSE IF TruthyT(payload.stream)
       THEN /\ upstreamCalls' = upstreamCalls
                                 \o <<payload, [payload EXCEPT !.stream = TBool(FALSE)]>>
            /\ IF second.raised
               THEN /\ clientResponse' = ErrorResponse(500, "internal_error")
                    /\ UNCHANGED sseOut
               ELSE /\ sseOut' = ResponsesEvents(second)
                    /\ UNCHANGED clientResponse
            /\ UNCHANGED usageRecords
       ELSE /\ upstreamCalls' = Append(upstreamCalls, payload)
            /\ ResponsesAnswer(first, committed)
            /\ UNCHANGED sseOut
    /\ UNCHANGED <<tool_call_accumulators, usage_info, linesRead, streamFinalized,
                   upstreamStatus>>
    /\ UNCHANGED <<varsR, varsK, varsD, inflight, varsT, env, payload, budgetLog>>

\* an answer of the backend whose first message has the content
ContentAnswer(content) ==
    [raised |-> FALSE, status_code |-> 200, json_ok |-> TRUE,
     data |-> Dict(<< <<K("id"), Str(<<"chatcmpl-1">>)>>,
                      <<K("choices"),
                        List(<< Dict(<< <<K("message"),
                                         Dict(<< <<K("role"), Str(<<"assistant">>)>>,
                                                 <<K("content"), content>> >>)>> >>) >>)>>,
                      <<K("usage"),
                        Dict(<< <<K("prompt_tokens"), Num("1")>> >>)>> >>)]

\* the answers a backend gives to the calls of proxy_responses
ResponsesAnswers ==
    ChatAnswers
    \cup { ContentAnswer(Str(<<"hi">>)),
           ContentAnswer(List(<< Dict(<< <<K("type"), Str(<<"text">>)>>,
                                         <<K("text"), Str(<<"hi">>)>> >>) >>)) }

\* the requests a client sends to /proxy/responses
ResponsesRequests ==
    { [disconnected |-> FALSE, raw |-> "json", headers |-> h, input |-> i,
       body |-> [BaseBody EXCEPT !.messages = m, !.stream = s,
                                 !.max_output_tokens = t]] :
        h \in {LiveHeaders} \cup RejectedHeaders,
        i \in {Absent, Str(<<"hi">>)},
        m \in {Absent, List(<<Message("user", Str(<<"hi">>))>>)},
        s \in {TAbsent, TBool(TRUE)},
        t \in {TAbsent, TInt(500)} }
    \cup { [disconnected |-> d, raw |-> r, headers |-> h, input |-> Absent,
            body |-> [BaseBody EXCEPT !.model = v]] :
             d \in BOOLEAN, r \in {"json", "empty", "garbage"},
             h \in {LiveHeaders} \cup RejectedHeaders,
             v \in {Str(<<"m">>), Absent, Str(<<"n">>)} }

(***************************************************************************)
(* Specifications.                                                         *)
(***************************************************************************)
\* no request is in flight
NoRequests == [r \in 1..MaxRequests |-> [at |-> "none", name |-> "", seen |-> <<>>]]

\* the process started with the default capacity of the debug buffer and
\* handles one request at a time
IdleProcess ==
    /\ TOOL_CALL_DEBUG_MAX = DefaultDebugMax
    /\ TOOL_CALL_DEBUG_BUFFER = <<>>
    /\ inflight = NoRequests

\* the request handler is idle and no tool calls have been seen
IdleChat ==
    /\ pc = "idle"
    /\ clientResponse = NoResponse
    /\ usageRecords = <<>>
    /\ tcInput = Absent
    /\ tcNormalized = Absent
    /\ tcFixed = Absent
    /\ tool_call_accumulators = <<>>
    /\ usage_info = None
    /\ sseOut = <<>>
    /\ linesRead = 0
    /\ streamFinalized = <<>>
    /\ upstreamStatus = 0
    /\ payload = NoPayload
    /\ upstreamCalls = <<>>
    /\ budgetLog = NoBudget
    /\ last_used_at = [k \in DOMAIN ApiKeyTable |-> 0]
    /\ keyLookups = <<>>
    /\ IdleProcess

InitResolver ==
    /\ models \in [ModelNames -> Registrations]
    /\ servers \in ServerTables
    /\ ROUND_ROBIN_STATE = [k \in {} |-> 0]
    /\ primaryIp \in PrimaryIps
    /\ resolveLog = [k \in RequestNames |-> <<>>]
    /\ env = DefaultEnv
    /\ IdleChat

\* POST /resolve-model
ResolveModel(name) ==
    /\ Len(resolveLog[name]) < MaxResolves
    /\ LET out == ResolveOutcome(name, primaryIp)
       IN  /\ ROUND_ROBIN_STATE' = ResolveState(name, out)
           /\ resolveLog' = [resolveLog EXCEPT ![name] = Append(@, out)]
    /\ UNCHANGED <<models, servers, primaryIp>>
    /\ UNCHANGED <<varsC, varsT, varsS, varsQ, varsK, varsD, inflight>>

Init == InitResolver

Next == \E name \in RequestNames : ResolveModel(name)

Spec == Init /\ [][Next]_vars

\* a request that passed the guard, the resolver and the budget and is about
\* to be forwarded, with or without streaming
InitTools ==
    /\ models = [n \in ModelNames |->
                   [present |-> TRUE, enabled |-> TRUE,
                    backend_host |-> "dgx-09", backend_port |-> ModelPort]]
    /\ servers = <<>>
    /\ ROUND_ROBIN_STATE = [k \in {} |-> 0]
    /\ primaryIp = "10.0.0.5"
    /\ resolveLog = [k \in RequestNames |-> IF k = RequestModel
                                             THEN <<ResolveOutcome(k, "10.0.0.5")>>
                                             ELSE <<>>]
    /\ pc \in {"upstream", "stream_open"}
    /\ clientResponse = NoResponse
    /\ usageRecords = <<>>
    /\ tcInput = Absent
    /\ tcNormalized = Absent
    /\ tcFixed = Absent
    /\ tool_call_accumulators = <<>>
    /\ usage_info = None
    /\ sseOut = <<>>
    /\ linesRead = 0
    /\ streamFinalized = <<>>
    /\ upstreamStatus = 0
    /\ env = DefaultEnv
    /\ payload = [PlainPayload EXCEPT !.stream = TBool(pc = "stream_open")]
    /\ upstreamCalls = <<>>
    /\ budgetLog = NoBudget
    /\ last_used_at = [k \in DOMAIN ApiKeyTable |-> 0]
    /\ keyLookups = << LiveHeaders.x_api_key >>
    /\ IdleProcess

NextTools ==
    \/ \E answer \in BackendAnswers, seed \in HexSeeds, committed \in BOOLEAN :
          NonStreamUpstream(answer, seed, committed)
    \/ \E status_code \in BackendStatuses : StreamOpen(status_code)
    \/ \E line \in BackendLines, seed \in HexSeeds : StreamLine(line, seed)
    \/ \E committed \in BOOLEAN : StreamClose(committed)
    \/ StreamFail

SpecTools == InitTools /\ [][NextTools]_vars

\* the registrations and the pool the chat requests are resolved against
InitChat ==
    /\ models = [n \in ModelNames |->
                   [present |-> TRUE, enabled |-> n = "m",
                    backend_host |-> "AUTO", backend_port |-> ModelPort]]
    /\ servers \in { <<>>,
                     [i \in 1..2 |-> [hostname |-> ServerHostname(i), port |-> 8000 + i,
                                      enabled |-> TRUE]] }
    /\ ROUND_ROBIN_STATE = [k \in {} |-> 0]
    /\ primaryIp = "10.0.0.5"
    /\ resolveLog = [k \in RequestNames |-> <<>>]
    /\ env \in EnvSettings
    /\ IdleChat

NextChat ==
    \/ \E req \in ChatRequests : ReceiveChat(req)
    \/ \E answer \in ChatAnswers, committed \in BOOLEAN :
          NonStreamUpstream(answer, "9f", committed)
    \/ \E status_code \in BackendStatuses : StreamOpen(status_code)
    \/ \E line \in ChatLines : StreamLine(line, "9f")
    \/ \E committed \in BOOLEAN : StreamClose(committed)
    \/ StreamFail
    \/ \E req \in ResponsesRequests : ReceiveResponses(req)
    \/ \E first \in ResponsesAnswers, second \in ResponsesAnswers,
          committed \in BOOLEAN :
          ResponsesUpstream(first, second, committed)

SpecChat == InitChat /\ [][NextChat]_vars

(***************************************************************************)
(* The accumulators on their own: the fragments of streamed tool calls are *)
(* merged one after the other by _accumulate_tool_calls and the result is  *)
(* finalized by _finalize_tool_call_accumulators.  tcInput is the list of  *)
(* the fragments merged so far.                                            *)
(***************************************************************************)
TxtA2 == <<"{", "\"", "a", "\"", ":", "2", "}">>
\* the tail of {"a":{"b":1}}: in braces, but no JSON text
TxtNestedTail == <<"{", "\"", "b", "\"", ":", "1", "}", "}">>

AccumulatorFragments ==
    { Fragment(Num("0"), CallAbc, Str(<<"search">>), Str(<<>>)),
      Fragment(Num("0"), Absent, Str(<<"search">>), Absent),
      Fragment(Num("0"), Absent, Str(<<"_files">>), Absent),
      Fragment(Num("0"), Absent, Str(<<"search", "_files">>), Absent),
      Fragment(Num("0"), Absent, Absent, Str(TxtA1)),
      Fragment(Num("0"), Absent, Absent, Str(TxtA2)),
      Fragment(Num("0"), Absent, Absent, Str(TxtA1Spaced)),
      Fragment(Num("0"), Absent, Absent, Str(TxtPartial)),
      Fragment(Num("0"), Absent, Absent, Str(TxtNestedTail)),
      Fragment(Num("0"), Absent, Absent, Str(<<" ">>)),
      Fragment(Num("0"), CallAbc, Str(<<"search">>), Str(TxtPartial)),
      Fragment(Num("0"), Absent, Absent, Str(<<"}">>)),
      Fragment(Num("1"), Absent, Str(<<"get_weather">>), Str(TxtPathSrc)) }

InitAccumulate ==
    /\ models = [n \in ModelNames |->
                   [present |-> TRUE, enabled |-> TRUE,
                    backend_host |-> "dgx-09", backend_port |-> ModelPort]]
    /\ servers = <<>>
    /\ ROUND_ROBIN_STATE = [k \in {} |-> 0]
    /\ primaryIp = "10.0.0.5"
    /\ resolveLog = [k \in RequestNames |-> <<>>]
    /\ env = DefaultEnv
    /\ IdleChat

\* _accumulate_tool_calls(tool_call_accumulators, [tc])
AccumulateFragment(tc, seed) ==
    /\ pc = "idle"
    /\ linesRead < MaxLines
    /\ tool_call_accumulators' = accumulate_tool_calls(tool_call_accumulators,
                                                       List(<<tc>>), seed)
    /\ tcInput' = IF tcInput = Absent THEN List(<<tc>>)
                  ELSE List(Elems(tcInput) \o <<tc>>)
    /\ linesRead' = linesRead + 1
    /\ UNCHANGED <<varsR, varsK, varsD, inflight, varsC, varsQ, tcNormalized, tcFixed, usage_info, sseOut,
                   streamFinalized, upstreamStatus>>

\* _finalize_tool_call_accumulators(tool_call_accumulators)
FinalizeAccumulators(seed) ==
    /\ pc = "idle"
    /\ tool_call_accumulators # <<>>
    /\ streamFinalized' = <<finalize_tool_call_accumulators(tool_call_accumulators, seed)>>
    /\ pc' = "done"
    /\ UNCHANGED <<varsR, varsK, varsD, inflight, varsT, varsQ, clientResponse, usageRecords,
                   tool_call_accumulators, usage_info, sseOut, linesRead, upstreamStatus>>

NextAccumulate ==
    \/ \E tc \in AccumulatorFragments, seed \in HexSeeds : AccumulateFragment(tc, seed)
    \/ \E seed \in HexSeeds : FinalizeAccumulators(seed)

SpecAccumulate == InitAccumulate /\ [][NextAccumulate]_vars

(***************************************************************************)
(* The streamed response on its own: the request was accepted and the      *)
(* streaming call is about to be made; the backend sends tool-call         *)
(* fragments of two indexes, finishing, content, blank, usage and          *)
(* choice-less chunks, several choices in a chunk and the terminator.      *)
(***************************************************************************)
ToolCallsChoice(fragments, finish_reason) ==
    Choice(Dict(<< <<K("tool_calls"), List(fragments)>> >>), finish_reason)

ContentChoice(role, content, finish_reason) ==
    Choice(Dict(Opt("role", role) \o Opt("content", content)), finish_reason)

ReassemblerChunks ==
    { \* two calls in one delta, the higher index first
      Chunk(<<ToolCallsChoice(<<Fragment(Num("1"), Str(<<"call_", "def">>),
                                         Str(ListFilesName), Str(TxtPathSrc)),
                                Fragment(Num("0"), CallAbc,
                                         Str(<<"get_weather">>), Str(TxtA1))>>,
                              None)>>, Absent),
      \* a fragment without a name
      Chunk(<<ToolCallsChoice(<<Fragment(Num("0"), Absent, Absent, Str(TxtPartial))>>,
                              None)>>, Absent),
      \* a call whose arguments decode to a number
      Chunk(<<ToolCallsChoice(<<Fragment(Num("0"), CallAbc,
                                         Str(<<"get_weather">>), Str(<<"123">>))>>,
                              None)>>, Absent),
      \* search_files with an empty object, and with the empty text
      Chunk(<<ToolCallsChoice(<<Fragment(Num("1"), CallAbc,
                                         Str(SearchFilesName), Str(TxtEmptyObject))>>,
                              None)>>, Absent),
      Chunk(<<ToolCallsChoice(<<Fragment(Num("0"), CallAbc,
                                         Str(<<"get_weather">>), Str(<<>>))>>,
                              None)>>, Absent),
      Chunk(<<ContentChoice(Absent, Absent, Str(<<"tool_calls">>))>>, Absent),
      Chunk(<<ContentChoice(Absent, Absent, Str(<<"stop">>))>>, Absent),
      Chunk(<<ContentChoice(Str(<<"assistant">>), Str(<<"hi">>), None)>>, Absent),
      \* blank content, alone and next to a choice with content
      Chunk(<<ContentChoice(Absent, Str(<<" ">>), None)>>, Absent),
      Chunk(<<ContentChoice(Absent, Str(<<" ">>), None),
              ContentChoice(Absent, Str(<<"hi">>), None)>>, Absent),
      \* no choices, with and without usage
      Chunk(<<>>, UsageObject),
      Chunk(<<>>, Absent) }

ReassemblerLines == { DataLine(c) : c \in ReassemblerChunks } \cup { DoneLine }

InitStream ==
    /\ models = [n \in ModelNames |->
                   [present |-> TRUE, enabled |-> TRUE,
                    backend_host |-> "dgx-09", backend_port |-> ModelPort]]
    /\ servers = <<>>
    /\ ROUND_ROBIN_STATE = [k \in {} |-> 0]
    /\ primaryIp = "10.0.0.5"
    /\ resolveLog = [k \in RequestNames |-> IF k = RequestModel
                                             THEN <<ResolveOutcome(k, "10.0.0.5")>>
                                             ELSE <<>>]
    /\ pc = "stream_open"
    /\ clientResponse = NoResponse
    /\ usageRecords = <<>>
    /\ tcInput = Absent
    /\ tcNormalized = Absent
    /\ tcFixed = Absent
    /\ tool_call_accumulators = <<>>
    /\ usage_info = None
    /\ sseOut = <<>>
    /\ linesRead = 0
    /\ streamFinalized = <<>>
    /\ upstreamStatus = 0
    /\ env = DefaultEnv
    /\ payload = [PlainPayload EXCEPT !.stream = TBool(TRUE)]
    /\ upstreamCalls = <<>>
    /\ budgetLog = NoBudget
    /\ last_used_at = [k \in DOMAIN ApiKeyTable |-> 0]
    /\ keyLookups = << LiveHeaders.x_api_key >>
    /\ IdleProcess

NextStream ==
    \/ \E status_code \in BackendStatuses : StreamOpen(status_code)
    \/ \E line \in ReassemblerLines : StreamLine(line, "9f")
    \/ \E committed \in BOOLEAN : StreamClose(committed)
    \/ StreamFail

SpecStream == InitStream /\ [][NextStream]_vars

(***************************************************************************)
(* The debug buffer: streamed responses record the tool calls of their     *)
(* chunks while GET /proxy/debug/tool-calls reads and clears the buffer    *)
(* (lines 2115-2123).                                                      *)
(***************************************************************************)
AdminKey == "admin"

\* what a request carries as X-Admin-Key or X-API-KEY
AdminHeaders == {"", "admin", "sk-live"}

\* the limit parameter of the debug read; the route puts no bound on it
DebugLimits == {0, 1, 2, 50}

\* max(1, min(limit, TOOL_CALL_DEBUG_MAX))
SafeLimit(limit) ==
    LET least == IF limit < TOOL_CALL_DEBUG_MAX THEN limit ELSE TOOL_CALL_DEBUG_MAX
    IN  IF least > 1 THEN least ELSE 1

\* list(buffer)[-n:] for n >= 1
LastItems(buffer, n) ==
    IF Len(buffer) <= n THEN buffer
    ELSE SubSeq(buffer, Len(buffer) - n + 1, Len(buffer))

\* the answer {"count": ..., "items": ...} of the debug read
DebugResponse(items) ==
    [ErrorResponse(200, "debug") EXCEPT !.detail = <<Len(items)>>, !.content = items]

\* GET /proxy/debug/tool-calls
proxy_debug_tool_calls(provided, limit, clear) ==
    /\ IF provided = "" \/ provided # AdminKey
       THEN /\ clientResponse' = ErrorResponse(403, "forbidden")
            /\ UNCHANGED TOOL_CALL_DEBUG_BUFFER
       ELSE /\ clientResponse' =
                 DebugResponse(LastItems(TOOL_CALL_DEBUG_BUFFER, SafeLimit(limit)))
            /\ TOOL_CALL_DEBUG_BUFFER' = IF clear THEN <<>> ELSE TOOL_CALL_DEBUG_BUFFER
    /\ UNCHANGED <<varsR, varsK, varsT, varsS, varsQ, pc, usageRecords,
                   TOOL_CALL_DEBUG_MAX, inflight>>

\* the tool-call fragments of the k-th call a backend streams
DebugFragment(k) ==
    Fragment(Num("0"), Str(<<"call_", ToString(k)>>), Str(<<"get_weather">>), Str(TxtA1))

\* the tool_calls lists of the choices of a chunk: one choice, or two
DebugLists ==
    { << <<DebugFragment(k)>> >> : k \in 1..2 }
    \cup { << <<DebugFragment(3)>>, <<DebugFragment(4), DebugFragment(5)>> >> }

DebugChunk(lists) ==
    Chunk([i \in 1..Len(lists) |-> ToolCallsChoice(lists[i], None)], Absent)

InitDebug ==
    /\ models = [n \in ModelNames |->
                   [present |-> TRUE, enabled |-> TRUE,
                    backend_host |-> "dgx-09", backend_port |-> ModelPort]]
    /\ servers = <<>>
    /\ ROUND_ROBIN_STATE = [k \in {} |-> 0]
    /\ primaryIp = "10.0.0.5"
    /\ resolveLog = [k \in RequestNames |-> IF k = RequestModel
                                             THEN <<ResolveOutcome(k, "10.0.0.5")>>
                                             ELSE <<>>]
    /\ pc = "streaming"
    /\ clientResponse = NoResponse
    /\ usageRecords = <<>>
    /\ tcInput = Absent
    /\ tcNormalized = Absent
    /\ tcFixed = Absent
    /\ tool_call_accumulators = <<>>
    /\ usage_info = None
    /\ sseOut = <<>>
    /\ linesRead = 0
    /\ streamFinalized = <<>>
    /\ upstreamStatus = 200
    /\ env = DefaultEnv
    /\ payload = [PlainPayload EXCEPT !.stream = TBool(TRUE)]
    /\ upstreamCalls = << [PlainPayload EXCEPT !.stream = TBool(TRUE)] >>
    /\ budgetLog = NoBudget
    /\ last_used_at = [k \in DOMAIN ApiKeyTable |-> 0]
    /\ keyLookups = << LiveHeaders.x_api_key >>
    /\ TOOL_CALL_DEBUG_MAX \in { DebugMax(raw) : raw \in DebugMaxSettings }
    /\ TOOL_CALL_DEBUG_BUFFER = <<>>
    /\ inflight = NoRequests

NextDebug ==
    \/ \E lists \in DebugLists : StreamLine(DataLine(DebugChunk(lists)), "9f")
    \/ \E provided \in AdminHeaders, limit \in DebugLimits, clear \in BOOLEAN :
          proxy_debug_tool_calls(provided, limit, clear)

SpecDebug == InitDebug /\ [][NextDebug]_vars

(***************************************************************************)
(* The estimator on its own: _estimate_prompt_tokens applied to one        *)
(* message list after the other under the settings of the process.         *)
(* budgetLog holds the last list and its estimate.                         *)
(***************************************************************************)
MaxMessages == 3

EstimateContents ==
    { Str(<<>>), Str(<<"hi">>), Str(<<"a", "b", "c", "d", "e", "f", "g", "h">>), None }

\* the lists of up to MaxMessages messages, and a list with an item that is
\* no message
EstimateInputs ==
    UNION { { List([i \in 1..n |-> Message("user", c[i])]) :
                c \in [1..n -> EstimateContents] } : n \in 0..MaxMessages }
    \cup { List(<<Str(<<"hi">>), Message("user", Str(<<"hi">>))>>),
           Str(<<"hi">>) }

InitEstimate ==
    /\ models = [n \in ModelNames |->
                   [present |-> TRUE, enabled |-> TRUE,
                    backend_host |-> "dgx-09", backend_port |-> ModelPort]]
    /\ servers = <<>>
    /\ ROUND_ROBIN_STATE = [k \in {} |-> 0]
    /\ primaryIp = "10.0.0.5"
    /\ resolveLog = [k \in RequestNames |-> <<>>]
    /\ env \in EnvSettings
    /\ IdleChat

\* _estimate_prompt_tokens(messages, chars_per_token)
EstimateMessages(messages) ==
    /\ pc = "idle"
    /\ LET est == estimate_prompt_tokens(messages, CharsPerToken(env.TOKEN_CHARS_PER_TOKEN))
       IN  budgetLog' = [NoBudget EXCEPT !.reached = TRUE,
                                         !.known = est.known,
                                         !.prompt_tokens_est = est.tokens,
                                         !.messages = messages]
    /\ UNCHANGED <<varsR, varsK, varsD, inflight, varsC, varsT, varsS, env, payload, upstreamCalls>>

NextEstimate == \E messages \in EstimateInputs : EstimateMessages(messages)

SpecEstimate == InitEstimate /\ [][NextEstimate]_vars

(***************************************************************************)
(* Properties of the backend resolver.                                     *)
(***************************************************************************)
\* the registration of name is enabled and asks for the pool
PooledRegistration(name) ==
    /\ models[name].present
    /\ models[name].enabled
    /\ Lower(models[name].backend_host) \in PoolSentinels

\* C1: with a fixed pool of N >= 1 enabled nodes and a model registered with a
\* pool sentinel, the k-th resolve of the model (k = 0, 1, ...) succeeds and
\* returns pool[k mod N], so no node repeats within N consecutive resolutions.
C1_RoundRobinCycle ==
    \A name \in ModelNames :
        LET pool == EnabledServers(servers)
            N == Len(pool)
            log == resolveLog[name]
        IN  (N >= 1 /\ PooledRegistration(name)) =>
              /\ \A k \in 1..Len(log) :
                    /\ log[k].status = 200
                    /\ log[k].node = pool[((k - 1) % N) + 1]
                    /\ log[k].port = log[k].node.port
              /\ \A i, j \in 1..Len(log) :
                    (i < j /\ j - i < N) => log[i].node # log[j].node

\* Scenario A: a pool of 2 nodes, three resolutions: node0, node1, node0
C1_Witness ==
    \E name \in ModelNames :
        LET pool == EnabledServers(servers)
            log == resolveLog[name]
        IN  /\ Len(pool) = 2
            /\ PooledRegistration(name)
            /\ Len(log) = 3
            /\ log[1].node = pool[1]
            /\ log[2].node = pool[2]
            /\ log[3].node = pool[1]

StreamedToolCalls ==
    UNION { { sseOut[i].choices[j].tool_calls : j \in 1..Len(sseOut[i].choices) }
            : i \in 1..Len(sseOut) } \ {Absent}

EmittedToolCalls ==
    (IF clientResponse.tool_calls = Absent THEN {} ELSE {clientResponse.tool_calls})
    \cup StreamedToolCalls

EmittedCalls ==
    UNION { { l.items[k][2] : k \in 1..Len(l.items) } : l \in EmittedToolCalls }

NameOf(call) == DictGet(DictGet(call, K("function"), None), K("name"), None)
ArgumentsOf(call) == DictGet(DictGet(call, K("function"), None), K("arguments"), None)

\* the text parses as JSON, to an object
ParsesToObject(args) ==
    IsStr(args) /\ JsonLoads(args.lit).ok /\ IsDict(JsonLoads(args.lit).val)

ItemSet(d) == { d.items[i] : i \in 1..Len(d.items) }

\* two objects with the same keys and values
SameObject(a, b) == IsDict(a) /\ IsDict(b) /\ ItemSet(a) = ItemSet(b)

\* object a has every key of object b, with b's value
Extends(a, b) == IsDict(a) /\ IsDict(b) /\ ItemSet(b) \subseteq ItemSet(a)

\* the name and the arguments of a call in standard or shorthand shape
ShapeName(call) ==
    IF HasKey(call, K("function")) THEN NameOf(call) ELSE DictGet(call, K("name"), None)
ShapeArguments(call) ==
    IF HasKey(call, K("function")) THEN ArgumentsOf(call)
    ELSE DictGet(call, K("arguments"), None)

\* a valid call in standard or shorthand shape whose arguments are an object
\* or a string
ValidInputCall(call) ==
    /\ IsDict(call)
    /\ HasKey(call, K("function")) => IsDict(DictGet(call, K("function"), None))
    /\ NonBlankStr(ShapeName(call))
    /\ IsDict(ShapeArguments(call)) \/ NonBlankStr(ShapeArguments(call))
    /\ ~HasKey(call, K("id")) \/ NonBlankStr(DictGet(call, K("id"), None))

\* the object the arguments stand for: themselves, or the {"input": ...}
\* wrapper of what is no object
ExpectedObject(args) ==
    IF IsDict(args) THEN args
    ELSE IF ~JsonLoads(args.lit).ok THEN Dict(<< <<K("input"), args>> >>)
    ELSE IF IsDict(JsonLoads(args.lit).val) THEN JsonLoads(args.lit).val
    ELSE Dict(<< <<K("input"), JsonLoads(args.lit).val>> >>)

\* the backend answered the non-streaming call with the single tool call
SingleInput(call) == pc = "done" /\ tcInput = List(<<call>>)

\* the list holds exactly one call
SingleCall(l) == IsList(l) /\ Len(l.items) = 1

\* C3: every tool call that reaches the client, streamed or not, carries an
\* arguments string that parses as JSON to an object.
C3_EmittedArgumentsAreObjects ==
    \A call \in EmittedCalls : ParsesToObject(ArgumentsOf(call))

\* C6: for a valid call in standard or shorthand shape with object or string
\* arguments, Normalize, Fix and the gate yield exactly one call whose
\* arguments parse to the input's object, or to its {"input": ...} wrapper.
C6_NormalizeFixGateRoundTrip ==
    (pc = "done" /\ SingleCall(tcInput) /\ ValidInputCall(tcInput.items[1][2])) =>
        /\ SingleCall(clientResponse.tool_calls)
        /\ ParsesToObject(ArgumentsOf(clientResponse.tool_calls.items[1][2]))
        /\ SameObject(JsonLoads(ArgumentsOf(clientResponse.tool_calls.items[1][2]).lit).val,
                      ExpectedObject(ShapeArguments(tcInput.items[1][2])))

\* a shorthand call with a non-blank name and arguments that are an object
ShorthandInput(call) ==
    /\ IsDict(call)
    /\ ~HasKey(call, K("function"))
    /\ NonBlankStr(DictGet(call, K("name"), None))
    /\ \/ IsDict(DictGet(call, K("arguments"), None))
       \/ ParsesToObject(DictGet(call, K("arguments"), None))

\* C7: Normalize resolves the name and the arguments of a shorthand call into
\* the nested function object, and Fix keeps the call with that name and
\* those arguments.
C7_ShorthandResolved ==
    (pc = "done" /\ SingleCall(tcInput) /\ ShorthandInput(tcInput.items[1][2])) =>
        /\ SingleCall(tcNormalized)
        /\ NameOf(tcNormalized.items[1][2]) = DictGet(tcInput.items[1][2], K("name"), None)
        /\ SingleCall(tcFixed)
        /\ NameOf(tcFixed.items[1][2]) = DictGet(tcInput.items[1][2], K("name"), None)
        /\ ParsesToObject(ArgumentsOf(tcFixed.items[1][2]))
        /\ Extends(JsonLoads(ArgumentsOf(tcFixed.items[1][2]).lit).val,
                   ExpectedObject(DictGet(tcInput.items[1][2], K("arguments"), None)))

\* the fixed call that comes from the normalized call n
FixedOf(n) ==
    { c \in { tcFixed.items[j][2] : j \in 1..Len(tcFixed.items) } :
        /\ DictGet(c, K("index"), None) = DictGet(n, K("index"), None)
        /\ NameOf(c) = NameOf(n) }

NormalizedCalls ==
    IF IsList(tcNormalized)
    THEN { tcNormalized.items[i][2] : i \in 1..Len(tcNormalized.items) }
    ELSE {}

\* {"name":"list_files","arguments":"{}"}
ScenarioC == ShorthandCall(Absent, Str(ListFilesName), Str(TxtEmptyObject))

\* C8: Fix keeps the call {"name":"list_files","arguments":"{}"} with the
\* arguments {} and no defaults; in general a named call whose arguments are
\* explicit-empty is kept with the arguments {}.
C8_ExplicitEmptyStaysEmpty ==
    /\ SingleInput(ScenarioC) =>
          /\ SingleCall(tcFixed)
          /\ NameOf(tcFixed.items[1][2]) = Str(ListFilesName)
          /\ ArgumentsOf(tcFixed.items[1][2]) = Str(TxtEmptyObject)
    /\ pc = "done" =>
          \A n \in NormalizedCalls :
              (ExplicitEmpty(n) /\ NonBlankStr(NameOf(n))) =>
                  \E c \in FixedOf(n) : ArgumentsOf(c) = Str(TxtEmptyObject)

\* {"name":"search_files","arguments":{}}
ScenarioD == ShorthandCall(Absent, Str(SearchFilesName), Dict(<<>>))

SearchDefaults ==
    Dict(<< <<K("path"), Str(<<".">>)>>, <<K("regex"), Str(<<".*">>)>>,
            <<K("file_pattern"), Str(<<"*.*">>)>> >>)

ListDefaults ==
    Dict(<< <<K("path"), Str(<<".">>)>>, <<K("recursive"), PyFalse>> >>)

DefaultsOf(name) == IF name = Str(SearchFilesName) THEN SearchDefaults ELSE ListDefaults

\* the keys of an object
KeySet(d) == { d.items[i][1] : i \in 1..Len(d.items) }

\* C9: Fix turns {"name":"search_files","arguments":{}} into the call with
\* the three search_files defaults; in general a search_files or list_files
\* call whose arguments are an object that is not explicit-empty gets every
\* missing default and keeps every key it came with.
C9_DefaultsInjected ==
    /\ SingleInput(ScenarioD) =>
          /\ SingleCall(tcFixed)
          /\ ParsesToObject(ArgumentsOf(tcFixed.items[1][2]))
          /\ SameObject(JsonLoads(ArgumentsOf(tcFixed.items[1][2]).lit).val,
                        SearchDefaults)
    /\ pc = "done" =>
          \A n \in NormalizedCalls :
              (/\ NameOf(n) \in {Str(SearchFilesName), Str(ListFilesName)}
               /\ ~ExplicitEmpty(n)
               /\ ParsesToObject(ArgumentsOf(n))) =>
                  \E c \in FixedOf(n) :
                      /\ ParsesToObject(ArgumentsOf(c))
                      /\ Extends(JsonLoads(ArgumentsOf(c).lit).val,
                                 JsonLoads(ArgumentsOf(n).lit).val)
                      /\ KeySet(DefaultsOf(NameOf(n)))
                           \subseteq KeySet(JsonLoads(ArgumentsOf(c).lit).val)
                      /\ \A item \in ItemSet(JsonLoads(ArgumentsOf(c).lit).val) :
                            \/ item \in ItemSet(JsonLoads(ArgumentsOf(n).lit).val)
                            \/ item \in ItemSet(DefaultsOf(NameOf(n)))

\* what the gate asks of a call that is handed to the client
WellFormedCall(call) ==
    /\ IsDict(call)
    /\ NonBlankStr(DictGet(call, K("id"), None))
    /\ DictGet(call, K("type"), None) = Str(<<"function">>)
    /\ IsDict(DictGet(call, K("function"), None))
    /\ NonBlankStr(NameOf(call))
    /\ IsStr(ArgumentsOf(call))
    /\ JsonLoads(ArgumentsOf(call).lit).ok

\* C10: a tool_calls list is handed to the client only if every call in it
\* has a non-blank string id, the type "function", a function object with a
\* non-blank name and string arguments that parse as JSON; a list with a
\* violating call is omitted as a whole, never cut down to its valid calls.
C10_OnlyWellFormedListsEmitted ==
    /\ \A call \in EmittedCalls : WellFormedCall(call)
    /\ clientResponse.tool_calls \in {Absent, tcFixed}
    /\ StreamedToolCalls \subseteq { streamFinalized[i] : i \in 1..Len(streamFinalized) }

(***************************************************************************)
(* Properties of the token budget.                                         *)
(***************************************************************************)
\* proxy_chat_completions makes its upstream call, with the body it prepared
ChatForwards ==
    /\ pc \in {"upstream", "stream_open"}
    /\ upstreamCalls' = Append(upstreamCalls, payload)

\* the grant of a forwarded body is an integer of at least 1, and the budget
\* step left the sanitized messages as they were
GrantIsPositive(body) ==
    /\ body.max_tokens.t = "int"
    /\ body.max_tokens.n >= 1
    /\ body.messages = budgetLog.messages

PromptTooLarge ==
    /\ budgetLog.reached
    /\ budgetLog.known
    /\ budgetLog.max_model_len - budgetLog.prompt_tokens_est < 1

\* C5: if limit - estimate < 1 the request is rejected with status 400
\* carrying the estimate and the limit, no backend is called and no usage
\* record is appended.
C5_PromptTooLargeRejected ==
    PromptTooLarge =>
        /\ pc = "done"
        /\ clientResponse.status = 400
        /\ clientResponse.kind = "prompt_too_large"
        /\ clientResponse.detail = <<budgetLog.prompt_tokens_est, budgetLog.max_model_len>>
        /\ upstreamCalls = <<>>
        /\ usageRecords = <<>>

\* Scenario F: an estimate of 129500 against the limit 129000 was rejected
C5_Witness ==
    /\ PromptTooLarge
    /\ budgetLog.prompt_tokens_est = 129500
    /\ budgetLog.max_model_len = 129000
    /\ clientResponse.status = 400

(***************************************************************************)
(* Properties of the streaming reassembler and of the upstream proxy.      *)
(***************************************************************************)
\* the request being answered asked for a streamed response
StreamedRequest == pc \in {"stream_open", "streaming"} \/ upstreamStatus # 0

\* C11: whatever lines the backend streams, decodable payloads of unexpected
\* shape included, the reassembler raises no error into the client stream: it
\* keeps reading until the backend closes the stream.
C11_ReassemblerNeverRaises == pc # "raised"

\* C12: every streamed response that ends normally has data: [DONE] as its
\* last event, also when the backend closed the stream without sending one.
C12_StreamEndsWithTerminator ==
    (StreamedRequest /\ pc = "done") =>
        /\ sseOut # <<>>
        /\ sseOut[Len(sseOut)] = DoneEvent

\* C13: when reading the backend's stream fails after the stream started, the
\* client receives exactly one synthetic error event followed by the
\* terminator, and the response ends normally.
C13_MidStreamFailureDegrades ==
    [][StreamFail => /\ pc' = "done"
                     /\ sseOut' = sseOut \o <<ErrorEvent, DoneEvent>>]_vars

FragmentsFed == IF tcInput = Absent THEN <<>> ELSE Elems(tcInput)

\* the texts of key that the fragments of index idx carried in their function,
\* in the order of arrival
RECURSIVE PiecesOf(_, _, _)
PiecesOf(fragments, idx, key) ==
    IF fragments = <<>> THEN <<>>
    ELSE (IF DictGet(Head(fragments), K("index"), Num("0")) = idx
             /\ IsStr(DictGet(FunctionOf(Head(fragments)), K(key), None))
          THEN <<DictGet(FunctionOf(Head(fragments)), K(key), None).lit>>
          ELSE <<>>)
         \o PiecesOf(Tail(fragments), idx, key)

\* the text stands alone as a JSON object: in braces once trimmed, and it parses
StandsAlone(piece) ==
    LET trimmed == Strip(piece)
    IN  /\ trimmed # <<>>
        /\ Head(trimmed) = "{"
        /\ trimmed[Len(trimmed)] = "}"
        /\ JsonLoads(trimmed).ok

\* the buffer the merge rule leaves after the pieces: a piece that stands alone
\* replaces the buffer by its trimmed text, another non-empty piece is appended
RECURSIVE BufferAfter(_, _)
BufferAfter(buffer, pieces) ==
    IF pieces = <<>> THEN buffer
    ELSE BufferAfter(IF Head(pieces) = <<>> THEN buffer
                     ELSE IF StandsAlone(Head(pieces)) THEN Strip(Head(pieces))
                     ELSE buffer \o Head(pieces),
                     Tail(pieces))

\* the argument buffer of the accumulator of index idx
BufferOf(idx) ==
    DictGet(DictGet(AccAt(tool_call_accumulators, idx), K("function"), None),
            K("arguments"), None)

\* C15: an argument fragment that, trimmed, starts with "{", ends with "}" and
\* parses as JSON replaces the argument buffer of its index; any other
\* non-empty fragment is appended to it.  So the buffer of every index is what
\* this rule leaves after the fragments of the index, and {"a":1} followed by
\* {"a":2} leaves {"a":2}.
C15_CompleteFragmentReplacesBuffer ==
    \A idx \in {Num("0"), Num("1")} :
        HasIndex(tool_call_accumulators, idx) =>
            /\ BufferOf(idx) = Str(BufferAfter(<<>>, PiecesOf(FragmentsFed, idx, "arguments")))
            /\ (PiecesOf(FragmentsFed, idx, "arguments") = <<TxtA1, TxtA2>>
                   => BufferOf(idx) = Str(TxtA2))

\* Scenario E: {"a":1} then {"a":2} for index 0, and the buffer holds {"a":2}
C15_Witness ==
    /\ PiecesOf(FragmentsFed, Num("0"), "arguments") = <<TxtA1, TxtA2>>
    /\ HasIndex(tool_call_accumulators, Num("0"))
    /\ BufferOf(Num("0")) = Str(TxtA2)

\* the text of all the pieces, one after the other
RECURSIVE Joined(_)
Joined(pieces) == IF pieces = <<>> THEN <<>> ELSE Head(pieces) \o Joined(Tail(pieces))

\* C16: the name fragments "search" then "_files" for one index are finalized
\* as the name "search_files", the name that a single fragment "search_files"
\* is finalized as.
C16_NameFragmentsJoin ==
    \A i \in 1..Len(streamFinalized) :
        \A k \in 1..Len(streamFinalized[i].items) :
            LET call == streamFinalized[i].items[k][2]
                pieces == PiecesOf(FragmentsFed, DictGet(call, K("index"), None), "name")
            IN  Joined(pieces) = <<"search", "_files">> =>
                    NameOf(call) = Str(<<"search", "_files">>)

(***************************************************************************)
(* Properties of the usage records.                                        *)
(***************************************************************************)
\* a request was forwarded without streaming and the handler has returned
NonStreamAnswered ==
    /\ pc = "done"
    /\ upstreamCalls # <<>>
    /\ upstreamStatus = 0

\* C17: every non-streaming request that was forwarded to a backend has
\* appended exactly one usage record, whatever the backend returned, and each
\* count of the record is a number, zero when the backend supplied none.
C17_NonStreamAlwaysRecordsUsage ==
    NonStreamAnswered =>
        /\ Len(usageRecords) = 1
        /\ usageRecords[1].prompt_tokens.t = "num"
        /\ usageRecords[1].completion_tokens.t = "num"
        /\ usageRecords[1].total_tokens.t = "num"

\* C18: when the backend's stream closes, exactly one usage record is appended
\* if a chunk carried a usage block, holding the values of the last block, and
\* none is appended if no chunk carried one.
C18_StreamRecordsLastUsage ==
    [][(\E committed \in BOOLEAN : StreamClose(committed)) =>
          IF usage_info = None THEN usageRecords' = usageRecords
          ELSE /\ Len(usageRecords') = Len(usageRecords) + 1
               /\ IsDict(usage_info) =>
                     usageRecords'[Len(usageRecords')] = UsageRecord(usage_info)]_vars

\* C19: a usage record that cannot be persisted changes nothing of what the
\* client receives: the non-streaming request is still answered with the
\* canonical response under the backend's status, and the streamed response
\* still ends normally.
C19_PersistFailureIsInvisible ==
    [][/\ \A answer \in BackendAnswers \cup ChatAnswers, seed \in HexSeeds :
            (answer.json_ok /\ NonStreamUpstream(answer, seed, FALSE)) =>
                /\ clientResponse'.kind = "chat.completion"
                /\ clientResponse'.status = answer.status_code
       /\ (IsDict(usage_info) /\ StreamClose(FALSE)) => pc' = "done"]_vars

(***************************************************************************)
(* Properties of the access guard.                                         *)
(***************************************************************************)
\* the credential of a request: the API-key header when present, otherwise
\* the authorization header without a leading "Bearer "
CredentialOf(headers) ==
    IF headers.x_api_key # <<>> THEN headers.x_api_key
    ELSE IF headers.authorization # <<>> /\ Head(headers.authorization) = BearerPrefix
    THEN Tail(headers.authorization)
    ELSE headers.authorization

\* the credential is the key of an enabled credential record
MatchesEnabled(credential) ==
    /\ Len(credential) = 1
    /\ credential[1] \in DOMAIN ApiKeyTable
    /\ ApiKeyTable[credential[1]].enabled

\* the record of the credential has an owning account that is not active
OwnerInactive(credential) ==
    /\ ApiKeyTable[credential[1]].has_user
    /\ ~ApiKeyTable[credential[1]].user_active

\* the status the guard refuses the headers with, 0 when it lets them pass
GuardStatus(headers) ==
    IF CredentialOf(headers) = <<>> \/ ~MatchesEnabled(CredentialOf(headers)) THEN 401
    ELSE IF OwnerInactive(CredentialOf(headers)) THEN 403
    ELSE 0

\* the handler answered req with the refusal of the guard and forwarded nothing
RefusedByGuard(req) ==
    /\ pc' = "done"
    /\ clientResponse' = ErrorResponse(GuardStatus(req.headers), "auth")
    /\ upstreamCalls' = <<>>
    /\ payload' = NoPayload

\* the body of req arrived, is not empty, is JSON and names a model
BodyAccepted(req) ==
    /\ ~req.disconnected
    /\ req.raw = "json"
    /\ Truthy(req.body.model)

AnsweredDisconnected ==
    /\ pc' = "done"
    /\ clientResponse' = ErrorResponse(499, "client_disconnected")
    /\ keyLookups' = keyLookups
    /\ ROUND_ROBIN_STATE' = ROUND_ROBIN_STATE
    /\ resolveLog' = resolveLog
    /\ upstreamCalls' = <<>>
    /\ usageRecords' = <<>>
    /\ payload' = NoPayload

\* C21: when the client disconnects before the body is read, the handler of
\* either proxy path returns status 499, looks up no credential, resolves no
\* backend (every round-robin counter is unchanged), calls no backend and
\* appends no usage record.
C21_DisconnectTouchesNothing ==
    [][/\ \A req \in ChatRequests :
            (req.disconnected /\ ReceiveChat(req)) => AnsweredDisconnected
       /\ \A req \in ResponsesRequests :
            (req.disconnected /\ ReceiveResponses(req)) => AnsweredDisconnected]_vars

\* a request was answered 499 with no lookup, no resolution and no call
C21_Witness ==
    /\ pc = "done"
    /\ clientResponse.status = 499
    /\ keyLookups = <<>>
    /\ \A name \in RequestNames : resolveLog[name] = <<>>
    /\ upstreamCalls = <<>>
    /\ usageRecords = <<>>

\* the value the token limit of body is taken from: max_tokens if the key is
\* present, else max_output_tokens if present, else max_completion_tokens
TokenLimitSource(body) ==
    IF body.max_tokens.t # "absent" THEN body.max_tokens
    ELSE IF body.max_output_tokens.t # "absent" THEN body.max_output_tokens
    ELSE body.max_completion_tokens

\* the chat request was accepted and is about to be forwarded
Forwarding == pc' \in {"upstream", "stream_open"}

\* C22: the sanitized max_tokens of a chat request is derived from its
\* max_tokens if that key is present, otherwise from max_output_tokens if
\* present, otherwise from max_completion_tokens, and the forwarded request
\* has neither alias key (max_output_tokens 500 without max_tokens gives
\* max_tokens 500).
C22_MaxTokensAliases ==
    [][\A req \in ChatRequests :
          (ReceiveChat(req) /\ Forwarding) =>
              /\ budgetLog'.granted
                    = coerce_max_tokens(TokenLimitSource(req.body), DefaultMaxTokens)
              /\ payload'.max_output_tokens = TAbsent
              /\ payload'.max_completion_tokens = TAbsent
              /\ payload'.max_tokens.t = "int"
              /\ ((req.body.max_tokens = TAbsent /\ req.body.max_output_tokens = TInt(500))
                    => budgetLog'.granted = 500)]_vars

\* a request was forwarded with the limit 500 of its max_output_tokens
C22_Witness ==
    /\ pc \in {"upstream", "stream_open"}
    /\ budgetLog.granted = 500
    /\ payload.max_tokens = TInt(500)
    /\ payload.max_output_tokens = TAbsent
    /\ payload.max_completion_tokens = TAbsent

(***************************************************************************)
(* Properties of the estimator.                                            *)
(***************************************************************************)
\* the total character count and the message count of an estimated list
TotalChars(log) == CountMessages(Elems(log.messages)).chars
MessageCount(log) == CountMessages(Elems(log.messages)).count

\* C23 as stated: for a fixed chars_per_token, of two message lists the one
\* with no more characters in total has no greater estimate.
C23_EstimateMonotoneInChars ==
    [][(budgetLog.known /\ budgetLog'.known
        /\ TotalChars(budgetLog) <= TotalChars(budgetLog'))
          => budgetLog.prompt_tokens_est <= budgetLog'.prompt_tokens_est]_vars

\* C23: for a fixed chars_per_token, of two message lists the one with no
\* more messages and no more characters in total has no greater estimate;
\* with the same number of messages the estimate is monotonically
\* non-decreasing in the total character count.
C23_EstimateMonotoneForCount ==
    [][(budgetLog.known /\ budgetLog'.known
        /\ MessageCount(budgetLog) <= MessageCount(budgetLog')
        /\ TotalChars(budgetLog) <= TotalChars(budgetLog'))
          => budgetLog.prompt_tokens_est <= budgetLog'.prompt_tokens_est]_vars

\* three messages of eight characters each were estimated under the default
\* of four characters per token
C23_Witness ==
    /\ budgetLog.known
    /\ MessageCount(budgetLog) = 3
    /\ TotalChars(budgetLog) = 24
    /\ budgetLog.prompt_tokens_est = 18

(***************************************************************************)
(* Properties of the streamed response.                                    *)
(***************************************************************************)
\* the choices the client was sent, in order
RECURSIVE ChoicesSent(_)
ChoicesSent(events) ==
    IF events = <<>> THEN <<>>
    ELSE Head(events).choices \o ChoicesSent(Tail(events))

\* the tool-call lists the client was sent, in order
ToolCallsSent(events) ==
    LET sent == ChoicesSent(events)
    IN  [i \in 1..Len(SelectSeq(sent, LAMBDA c : c.tool_calls # Absent)) |->
            SelectSeq(sent, LAMBDA c : c.tool_calls # Absent)[i].tool_calls]

\* the finalized lists that pass the validation gate, in order
GatePassed(lists) == SelectSeq(lists, LAMBDA l : StreamGate(l) # Absent)

\* the calls of a list carry strictly ascending indexes
AscendingIndexes(calls) ==
    \A i \in 1..Len(Elems(calls)) : \A j \in 1..Len(Elems(calls)) :
        i < j => IntOf(DictGet(Elems(calls)[i], K("index"), None))
                   < IntOf(DictGet(Elems(calls)[j], K("index"), None))

\* C24: in a streamed response tool calls are sent only in a choice whose
\* finish_reason is "tool_calls", in ascending index order; the lists sent
\* are the finalized lists that passed the gate, each sent once; and the
\* accumulator map is empty right after a finalization, whether or not the
\* gate let the list through.
C24_ToolCallsOnlyAtFinish ==
    /\ [](/\ \A i \in 1..Len(ChoicesSent(sseOut)) :
                ChoicesSent(sseOut)[i].tool_calls # Absent
                  => /\ ChoicesSent(sseOut)[i].finish_reason = Str(<<"tool_calls">>)
                     /\ AscendingIndexes(ChoicesSent(sseOut)[i].tool_calls)
           /\ ToolCallsSent(sseOut) = GatePassed(streamFinalized))
    /\ [][streamFinalized' # streamFinalized => tool_call_accumulators' = <<>>]_vars

\* two calls were accumulated with the higher index first and sent in one
\* list on the finishing chunk, which left the accumulator map empty
C24_Witness ==
    /\ pc = "streaming"
    /\ tool_call_accumulators = <<>>
    /\ Len(streamFinalized) = 1
    /\ Len(ToolCallsSent(sseOut)) = 1
    /\ Len(Elems(ToolCallsSent(sseOut)[1])) = 2
    /\ DictGet(Elems(ToolCallsSent(sseOut)[1])[1], K("index"), None) = Num("0")
    /\ DictGet(Elems(ToolCallsSent(sseOut)[1])[2], K("index"), None) = Num("1")

\* the complete call {id, function: {name, arguments}} an accumulator
\* stands for; it has no arguments when no argument fragment was streamed
CompleteCall(acc) ==
    StandardCall(DictGet(acc, K("id"), Absent),
                 DictGet(FunctionOf(acc), K("name"), Absent),
                 IF DictGet(FunctionOf(acc), K("arguments"), Absent) = Str(<<>>)
                    /\ ~ExplicitEmpty(FunctionOf(acc))
                 THEN Absent
                 ELSE DictGet(FunctionOf(acc), K("arguments"), Absent))

CompleteCalls(accs) ==
    List([i \in 1..Len(SortedAccs(accs)) |-> CompleteCall(SortedAccs(accs)[i][2])])

\* the name of a call and the value its argument text decodes to
ResolvedCall(call) == <<NameOf(call), JsonLoads(ArgumentsOf(call).lit).val>>

ResolvedCalls(calls) == [i \in 1..Len(Elems(calls)) |-> ResolvedCall(Elems(calls)[i])]

\* C25 as stated: on the finishing chunk the accumulators are finalized to
\* the names and arguments the Fix phase gives the complete calls
\* {function: {name, arguments}} of the assembled names and argument texts,
\* and the same calls are dropped.
C25_FinalizationResolvesAsFix ==
    [][streamFinalized' # streamFinalized
         => ResolvedCalls(streamFinalized'[Len(streamFinalized')])
              = ResolvedCalls(fix_tool_calls(CompleteCalls(tool_call_accumulators),
                                             FALSE, "9f"))]_vars

\* C26 as stated: once the terminator of the backend was passed through,
\* nothing more is written to the client: no chunk and no second terminator
\* follows the first terminator.
C26_NothingAfterTerminator ==
    \A i \in 1..Len(sseOut) : sseOut[i].kind = "done" => i = Len(sseOut)

\* the usage-only chunks the client was sent: no choices, and the usage
UsageOnlyChunks(events) ==
    SelectSeq(events, LAMBDA e : e.kind = "chunk" /\ e.choices = <<>> /\ e.usage # Absent)

\* C27 as stated: in one streamed response the usage-only chunk is sent at
\* most once, however many chunks without choices follow a usage block.
C27_UsageOnlyChunkOnce == Len(UsageOnlyChunks(sseOut)) <= 1

\* a choice with no non-blank content, no role, no finish_reason and no
\* tool-call fragment
BareChoice(choice) ==
    /\ IsDict(choice)
    /\ IsDict(DictGet(choice, K("delta"), None))
    /\ Strip(ContentText(DictGet(DictGet(choice, K("delta"), None), K("content"), None)))
         = <<>>
    /\ DictGet(DictGet(choice, K("delta"), None), K("role"), None) = None
    /\ DictGet(DictGet(choice, K("delta"), None), K("tool_calls"), None) = None
    /\ DictGet(choice, K("finish_reason"), None) = None

\* a chunk that has choices, all of them bare
BareChunk(chunk) ==
    /\ Truthy(DictGet(chunk, K("choices"), None))
    /\ \A i \in 1..Len(Elems(DictGet(chunk, K("choices"), None))) :
          BareChoice(Elems(DictGet(chunk, K("choices"), None))[i])

\* C28 as stated: a chunk whose choices carry no non-blank content, no role,
\* no finish_reason and no tool-call fragment, read while no accumulator is
\* open, writes nothing to the client; and every choice written to the
\* client carries at least one of content, role, finish_reason or tool_calls.
C28_NoNoOpFrame ==
    /\ [][\A chunk \in ReassemblerChunks :
            (StreamLine(DataLine(chunk), "9f") /\ BareChunk(chunk)
             /\ tool_call_accumulators = <<>>) => sseOut' = sseOut]_vars
    /\ [](\A i \in 1..Len(ChoicesSent(sseOut)) :
            \/ ChoicesSent(sseOut)[i].content # Absent
            \/ ChoicesSent(sseOut)[i].role # Absent
            \/ ChoicesSent(sseOut)[i].finish_reason # Absent
            \/ ChoicesSent(sseOut)[i].tool_calls # Absent)

(***************************************************************************)
(* Properties of the access guard on both proxy paths.                     *)
(***************************************************************************)
\* the guard validated the credential of the headers and stamped its record,
\* or refused it and left every record as it was
GuardStamps(headers) ==
    IF GuardStatus(headers) = 0
    THEN last_used_at'[CredentialOf(headers)[1]] # 0
    ELSE last_used_at' = last_used_at

\* C29 as stated: on both proxy paths every successful validation of a
\* credential sets the last-used timestamp of its record, and a failed
\* validation leaves every timestamp unchanged.
C29_ValidationStampsCredential ==
    [][/\ \A req \in ChatRequests :
            (ReceiveChat(req) /\ BodyAccepted(req)) => GuardStamps(req.headers)
       /\ \A req \in ResponsesRequests :
            (ReceiveResponses(req) /\ BodyAccepted(req)) => GuardStamps(req.headers)]_vars

\* nothing was resolved and no backend was called for the request
NothingResolved ==
    /\ ROUND_ROBIN_STATE' = ROUND_ROBIN_STATE
    /\ resolveLog' = resolveLog
    /\ upstreamCalls' = <<>>
    /\ pc' = "done"

Registered(name) ==
    name \in ModelNames /\ models[name].present /\ models[name].enabled

\* the counters of the model names other than name are as they were
OtherCountersKept(name) ==
    /\ DOMAIN ROUND_ROBIN_STATE' \ {name} = DOMAIN ROUND_ROBIN_STATE \ {name}
    /\ \A other \in DOMAIN ROUND_ROBIN_STATE \ {name} :
          ROUND_ROBIN_STATE'[other] = ROUND_ROBIN_STATE[other]

\* what the resolution of name that was just made did to the counters
ResolveFrame(name, out) ==
    IF ~Registered(name)
    THEN out.status = 404 /\ ROUND_ROBIN_STATE' = ROUND_ROBIN_STATE
    ELSE IF ~UseServers(models[name]) \/ EnabledServers(servers) = <<>>
    THEN /\ out.status = 200
         /\ out.host = ReachableHost(models[name].backend_host, primaryIp)
         /\ out.port = models[name].backend_port
         /\ ROUND_ROBIN_STATE' = ROUND_ROBIN_STATE
    ELSE /\ out.status = 200
         /\ out.node = EnabledServers(servers)[out.index + 1]
         /\ name \in DOMAIN ROUND_ROBIN_STATE'
         /\ OtherCountersKept(name)

\* C31: a resolution of an absent or disabled model fails with 404 and
\* changes no round-robin counter; a resolution that uses the explicit
\* host:port of the registration (no sentinel address, or a sentinel while
\* no server is enabled) changes no counter; a pooled resolution changes
\* only the counter of the resolved model name.
C31_ResolveFrame ==
    [][\A name \in RequestNames :
          ResolveModel(name)
            => ResolveFrame(name, resolveLog'[name][Len(resolveLog'[name])])]_vars

\* one model was taken from the pool and has a counter, the other was
\* resolved to its explicit address and has none, and an unknown name failed
C31_Witness ==
    /\ EnabledServers(servers) # <<>>
    /\ \E name \in ModelNames :
          /\ resolveLog[name] # <<>>
          /\ resolveLog[name][1].pooled
          /\ DOMAIN ROUND_ROBIN_STATE = {name}
          /\ \E other \in ModelNames \ {name} :
                /\ resolveLog[other] # <<>>
                /\ resolveLog[other][1].status = 200
                /\ ~resolveLog[other][1].pooled
    /\ resolveLog["unknown"] # <<>>
    /\ resolveLog["unknown"][1].status = 404

(***************************************************************************)
(* Concurrent resolutions.  The application is served by one uvicorn       *)
(* process on one event loop; every handler is a coroutine, and coroutines *)
(* are switched only where one awaits.  A proxy request awaits the body of *)
(* the request and then runs the guard and resolve_model, which contains   *)
(* no await, in one piece.                                                 *)
(***************************************************************************)
\* a registration that takes its backend from the pool
RegisteredWithHost(h) ==
    [present |-> TRUE, enabled |-> TRUE, backend_host |-> h, backend_port |-> ModelPort]

InitConcurrent ==
    /\ models \in [ModelNames -> {RegisteredWithHost(""), RegisteredWithHost("AUTO")}]
    /\ servers \in { tbl \in ServerTables : EnabledServers(tbl) # <<>> }
    /\ ROUND_ROBIN_STATE = [k \in {} |-> 0]
    /\ primaryIp = "10.0.0.5"
    /\ resolveLog = [k \in RequestNames |-> <<>>]
    /\ env = DefaultEnv
    /\ IdleChat

\* raw_body = await request.body(): request r for the model name arrives and
\* is suspended until its body is read; seen is the counter map at that time
ReadBody(r, name) ==
    /\ inflight[r].at = "none"
    /\ inflight' = [inflight EXCEPT ![r] = [at |-> "body", name |-> name,
                                            seen |-> ROUND_ROBIN_STATE]]
    /\ UNCHANGED <<varsR, varsC, varsT, varsS, varsQ, varsK, varsD>>

\* the counter map the resolution of request r reads under the stale read:
\* the map as it was when the request arrived
CounterMapReadAtArrival(r) == inflight[r].seen

\* ROUND_ROBIN_STATE.get(model.name, 0): the counter map the resolution of
\* request r reads, the map as it is when the resolution runs
CounterMapRead(r) == ROUND_ROBIN_STATE

\* resolved = await resolve_model(...): request r resumes and resolves its
\* model; the read of the counter, the selection and the write are one step
ResolveRequest(r) ==
    /\ inflight[r].at = "body"
    /\ LET name == inflight[r].name
           out == ResolveOutcomeFrom(CounterMapRead(r), name, primaryIp)
       IN  /\ ROUND_ROBIN_STATE' = ResolveState(name, out)
           /\ resolveLog' = [resolveLog EXCEPT ![name] = Append(@, out)]
    /\ inflight' = [inflight EXCEPT ![r].at = "resolved"]
    /\ UNCHANGED <<models, servers, primaryIp>>
    /\ UNCHANGED <<varsC, varsT, varsS, varsQ, varsK, varsD>>

NextConcurrent ==
    \/ \E r \in 1..MaxRequests, name \in ModelNames : ReadBody(r, name)
    \/ \E r \in 1..MaxRequests : ResolveRequest(r)

SpecConcurrent == InitConcurrent /\ [][NextConcurrent]_vars

\* how many of the outcomes selected the node
RECURSIVE TimesSelected(_, _)
TimesSelected(outs, node) ==
    IF outs = <<>> THEN 0
    ELSE (IF Head(outs).node = node THEN 1 ELSE 0) + TimesSelected(Tail(outs), node)

\* C32: however concurrent resolutions of the same pooled model interleave,
\* no update of its counter is lost: with a fixed pool of N nodes the k-th
\* of K resolutions selects node (k - 1) mod N, the counter stands K
\* positions on in the rotation, and no node is selected more than
\* ceil(K / N) times.
C32_NoLostUpdate ==
    \A name \in ModelNames :
        LET pool == EnabledServers(servers)
            outs == resolveLog[name]
            count == Len(outs)
            size == Len(pool)
        IN  /\ \A k \in 1..count : /\ outs[k].pooled
                                    /\ outs[k].node = pool[((k - 1) % size) + 1]
            /\ count > 0 => ROUND_ROBIN_STATE[name] = ((count - 1) % size) + 1
            /\ \A i \in 1..size : TimesSelected(outs, pool[i]) <= CeilDiv(count, size)

\* three requests for the model m arrived before any of them resolved, and
\* all three have resolved against a pool of two nodes
C32_Witness ==
    /\ Len(EnabledServers(servers)) = 2
    /\ Len(resolveLog["m"]) = 3
    /\ \A r \in 1..3 : /\ inflight[r].at = "resolved"
                        /\ inflight[r].name = "m"
                        /\ inflight[r].seen = [k \in {} |-> 0]

(***************************************************************************)
(* Properties of the tool-call debug buffer.                               *)
(***************************************************************************)
\* the last n entries of a sequence, all of it when it has no more, n >= 0
KeepLast(entries, n) ==
    IF Len(entries) <= n THEN entries
    ELSE SubSeq(entries, Len(entries) - n + 1, Len(entries))

\* the entries the choices of a chunk are recorded as, in order
EntriesOf(lists) == [i \in 1..Len(lists) |-> DebugEntry("stream_chunk", List(lists[i]))]

\* the buffer holds no more than its capacity, and every chunk leaves in it
\* the most recent entries in push order: what it held and the entries of
\* the chunk, without the oldest ones that do not fit
RingBuffer ==
    /\ [](Len(TOOL_CALL_DEBUG_BUFFER) <= TOOL_CALL_DEBUG_MAX)
    /\ [][\A lists \in DebugLists :
            (linesRead' = linesRead + 1 /\ StreamLine(DataLine(DebugChunk(lists)), "9f"))
              => TOOL_CALL_DEBUG_BUFFER'
                   = KeepLast(TOOL_CALL_DEBUG_BUFFER \o EntriesOf(lists),
                              TOOL_CALL_DEBUG_MAX)]_vars

\* an admitted debug read answers with the most recent entries, no more than
\* most of them
DebugReadReturns(limit, most) ==
    /\ clientResponse'.kind = "debug"
    /\ Len(clientResponse'.content) <= most
    /\ clientResponse'.detail = <<Len(clientResponse'.content)>>
    /\ clientResponse'.content
         = KeepLast(TOOL_CALL_DEBUG_BUFFER, Len(clientResponse'.content))

\* the smaller of two integers, and the larger
Least(a, b) == IF a < b THEN a ELSE b
Most(a, b) == IF a > b THEN a ELSE b

\* C34 as stated: the buffer never holds more entries than its capacity, a
\* push onto a full buffer evicts exactly the oldest entry and keeps the
\* others in push order, and the debug read returns at most
\* min(limit, capacity) of the most recent entries.
C34_RingBufferReadWithinLimit ==
    /\ RingBuffer
    /\ [][\A limit \in DebugLimits, clear \in BOOLEAN :
            proxy_debug_tool_calls(AdminKey, limit, clear)
              => DebugReadReturns(limit, Least(limit, TOOL_CALL_DEBUG_MAX))]_vars

\* C34: the buffer never holds more entries than its capacity, a push onto
\* a full buffer evicts exactly the oldest entry and keeps the others in
\* push order, and the debug read returns the most recent entries, at most
\* max(1, min(limit, capacity)) of them: a limit below 1 reads one entry.
C34_RingBufferReadAtLeastOne ==
    /\ RingBuffer
    /\ [][\A limit \in DebugLimits, clear \in BOOLEAN :
            proxy_debug_tool_calls(AdminKey, limit, clear)
              => /\ DebugReadReturns(limit, Most(1, Least(limit, TOOL_CALL_DEBUG_MAX)))
                 /\ \/ Len(clientResponse'.content) = Len(TOOL_CALL_DEBUG_BUFFER)
                    \/ Len(clientResponse'.content)
                         = Most(1, Least(limit, TOOL_CALL_DEBUG_MAX))]_vars

\* a buffer of capacity 2 was pushed onto while full, holds the two most
\* recent entries, and a debug read returned one of them
C34_Witness ==
    /\ TOOL_CALL_DEBUG_MAX = 2
    /\ linesRead = 3
    /\ Len(TOOL_CALL_DEBUG_BUFFER) = 2
    /\ clientResponse.kind = "debug"
    /\ clientResponse.content = <<TOOL_CALL_DEBUG_BUFFER[2]>>

(***************************************************************************)
(* Stream negotiation.                                                     *)
(***************************************************************************)
\* {"include_usage": <boolean>}
UsageOption(options) ==
    \E b \in {PyTrue, PyFalse} : options = Dict(<< <<K("include_usage"), b>> >>)

\* C33: a chat request that reaches the backend is streamed if and only if
\* the client set stream and the Accept header includes text/event-stream
\* or the force-stream override is set; when a stream the client asked for
\* is declined the forwarded request has neither stream nor stream_options;
\* when streaming, the forwarded stream_options is absent or exactly
\* {include_usage: <boolean>}.
C33_StreamNegotiation ==
    [][\A req \in ChatRequests :
         (ReceiveChat(req) /\ pc' \in {"upstream", "stream_open"})
           => LET asked == TruthyT(req.body.stream)
                  honoured == asked /\ (\/ AcceptsEventStream(req.headers.accept)
                                        \/ EnvFlag(env.FORCE_STREAM))
              IN  /\ (pc' = "stream_open") <=> honoured
                  /\ (asked /\ ~honoured)
                       => /\ payload'.stream = TAbsent
                          /\ payload'.stream_options = Absent
                  /\ ~honoured => payload'.stream_options = Absent
                  /\ honoured
                       => /\ payload'.stream = TBool(TRUE)
                          /\ \/ payload'.stream_options = Absent
                             \/ UsageOption(payload'.stream_options)]_vars

\* without the override a stream was negotiated on the Accept header, and
\* the forwarded stream_options is the include_usage flag alone
C33_Witness ==
    /\ pc = "stream_open"
    /\ ~EnvFlag(env.FORCE_STREAM)
    /\ payload.stream = TBool(TRUE)
    /\ payload.stream_options = Dict(<< <<K("include_usage"), PyTrue>> >>)

(***************************************************************************)
(* Reassembly of fragmented arguments.                                     *)
(***************************************************************************)
\* C35: when the argument fragments of one index, put together in the order
\* of arrival, are a valid JSON object, the finalized arguments of the call
\* parse to that object, also when one of the fragments is a complete JSON
\* object on its own, as in {"a": then {"a":1} then }.
C35_FragmentsReassembled ==
    \A i \in 1..Len(streamFinalized) :
        \A idx \in {Num("0"), Num("1")} :
            LET joined == Joined(PiecesOf(FragmentsFed, idx, "arguments"))
                named == PiecesOf(FragmentsFed, idx, "name") # <<>>
                calls == streamFinalized[i].items
            IN  (named /\ ParsesToObject(Str(joined)))
                  => \E k \in 1..Len(calls) :
                        /\ DictGet(calls[k][2], K("index"), None) = idx
                        /\ ParsesToObject(ArgumentsOf(calls[k][2]))
                        /\ JsonLoads(ArgumentsOf(calls[k][2]).lit).val
                             = JsonLoads(joined).val

(***************************************************************************)
(* Content, tool calls and finish reasons of a streamed response.          *)
(***************************************************************************)
\* the events a step wrote to the client
NewEvents == SubSeq(sseOut', Len(sseOut) + 1, Len(sseOut'))

\* the content text of the choices of a backend chunk, in order
RECURSIVE BackendContent(_)
BackendContent(choices) ==
    IF choices = <<>> THEN <<>>
    ELSE (IF IsDict(Head(choices)) /\ IsDict(DictGet(Head(choices), K("delta"), None))
          THEN ContentText(DictGet(DictGet(Head(choices), K("delta"), None),
                                   K("content"), None))
          ELSE <<>>)
         \o BackendContent(Tail(choices))

\* the content text of the choices sent to the client, in order
RECURSIVE ClientContent(_)
ClientContent(sent) ==
    IF sent = <<>> THEN <<>>
    ELSE (IF Head(sent).content = Absent THEN <<>> ELSE Head(sent).content.lit)
         \o ClientContent(Tail(sent))

\* C36: the content delivered to the client is the content the backend
\* sent: every chunk read from the backend is answered by choices whose
\* content, put together, is the content of the chunk's choices, and no
\* fragment, a whitespace-only one included, is dropped or altered.
C36_ContentDeliveredWhole ==
    [][\A chunk \in ReassemblerChunks :
         StreamLine(DataLine(chunk), "9f")
           => ClientContent(ChoicesSent(NewEvents))
                = BackendContent(Elems(DictGet(chunk, K("choices"), List(<<>>))))]_vars

\* an accumulated call with a non-blank name and arguments that are a
\* valid JSON object
Deliverable(acc) ==
    /\ IsDict(acc)
    /\ IsStr(NameOf(acc))
    /\ Strip(NameOf(acc).lit) # <<>>
    /\ ParsesToObject(ArgumentsOf(acc))

\* C37: every accumulated tool call with a non-blank name and non-empty
\* valid arguments is delivered to the client before the response ends,
\* whatever the finish_reason and also when the backend closes the stream
\* without one: no such call is left in the accumulators of a response that
\* has ended.
C37_AccumulatedCallsDelivered ==
    pc = "done" =>
        \A i \in 1..Len(tool_call_accumulators) :
            ~Deliverable(tool_call_accumulators[i][2])

\* the finish reasons of the choices of a backend chunk, in order
RECURSIVE BackendFinishReasons(_)
BackendFinishReasons(choices) ==
    IF choices = <<>> THEN <<>>
    ELSE (IF IsDict(Head(choices)) /\ DictGet(Head(choices), K("finish_reason"), None) # None
          THEN <<DictGet(Head(choices), K("finish_reason"), None)>>
          ELSE <<>>)
         \o BackendFinishReasons(Tail(choices))

\* the finish reasons of the choices sent to the client, in order
RECURSIVE ClientFinishReasons(_)
ClientFinishReasons(sent) ==
    IF sent = <<>> THEN <<>>
    ELSE (IF Head(sent).finish_reason = Absent THEN <<>> ELSE <<Head(sent).finish_reason>>)
         \o ClientFinishReasons(Tail(sent))

\* C38: every choice the backend sends with a non-null finish_reason is
\* answered by a choice to the client that carries this finish_reason,
\* "tool_calls" included when no tool call was accumulated or none survives
\* finalization and the gate.
C38_FinishReasonForwarded ==
    [][\A chunk \in ReassemblerChunks :
         (StreamLine(DataLine(chunk), "9f") /\ pc' = "streaming")
           => ClientFinishReasons(ChoicesSent(NewEvents))
                = BackendFinishReasons(Elems(DictGet(chunk, K("choices"), List(<<>>))))]_vars

(***************************************************************************)
(* Calls and counter advances of one proxy request.                        *)
(***************************************************************************)
\* C39: an accepted proxy request, chat or responses, streaming or not,
\* issues at most one completion call to the backend and advances the
\* round-robin counter at most once.
C39_OneCallOneAdvance ==
    /\ Len(upstreamCalls) <= 1
    /\ \A name \in RequestNames : Len(resolveLog[name]) <= 1
    /\ \A name \in DOMAIN ROUND_ROBIN_STATE : ROUND_ROBIN_STATE[name] <= 1

(***************************************************************************)
(* The pool changes while models are resolved: servers are registered by   *)
(* POST /servers and removed by DELETE /servers/{id}, and the enabled      *)
(* column of a row is set in the database.                                 *)
(***************************************************************************)
HasHostname(tbl, hostname) == \E i \in 1..Len(tbl) : tbl[i].hostname = hostname

\* the table without its i-th row
WithoutRow(tbl, i) == SubSeq(tbl, 1, i - 1) \o SubSeq(tbl, i + 1, Len(tbl))

\* POST /servers: a hostname that is new and answers the test is added,
\* enabled; ok is the result of _test_server_endpoint
create_server(hostname, port, ok) ==
    /\ Len(servers) < MaxPool
    /\ servers' = IF ~HasHostname(servers, hostname) /\ ok
                  THEN Append(servers, [hostname |-> hostname, port |-> port,
                                        enabled |-> TRUE])
                  ELSE servers
    /\ UNCHANGED <<models, ROUND_ROBIN_STATE, primaryIp, resolveLog>>
    /\ UNCHANGED <<varsC, varsT, varsS, varsQ, varsK, varsD, inflight>>

\* DELETE /servers/{server_id}: the row is removed, or 404 without it
delete_server(i) ==
    /\ servers' = IF i \in 1..Len(servers) THEN WithoutRow(servers, i) ELSE servers
    /\ UNCHANGED <<models, ROUND_ROBIN_STATE, primaryIp, resolveLog>>
    /\ UNCHANGED <<varsC, varsT, varsS, varsQ, varsK, varsD, inflight>>

\* the enabled column of the i-th row is set in the database
SetServerEnabled(i, enabled) ==
    /\ i \in 1..Len(servers)
    /\ servers' = [servers EXCEPT ![i].enabled = enabled]
    /\ UNCHANGED <<models, ROUND_ROBIN_STATE, primaryIp, resolveLog>>
    /\ UNCHANGED <<varsC, varsT, varsS, varsQ, varsK, varsD, inflight>>

InitPool ==
    /\ models = [n \in ModelNames |->
                   [present |-> TRUE, enabled |-> TRUE,
                    backend_host |-> IF n = "m" THEN "AUTO" ELSE "dgx-09",
                    backend_port |-> ModelPort]]
    /\ servers = <<>>
    /\ ROUND_ROBIN_STATE = [k \in {} |-> 0]
    /\ primaryIp = "10.0.0.5"
    /\ resolveLog = [k \in RequestNames |-> <<>>]
    /\ env = DefaultEnv
    /\ IdleChat

NextPool ==
    \/ \E i \in 1..MaxPool, ok \in BOOLEAN :
          create_server(ServerHostname(i), 8000 + i, ok)
    \/ \E i \in 1..MaxPool : delete_server(i)
    \/ \E i \in 1..MaxPool, enabled \in BOOLEAN : SetServerEnabled(i, enabled)
    \/ ResolveModel("m")

SpecPool == InitPool /\ [][NextPool]_vars

\* the rows of the table that are enabled
EnabledRows == { i \in 1..Len(servers) : servers[i].enabled }

\* how many enabled rows stand before the i-th row
EnabledBefore(i) == Cardinality({ j \in EnabledRows : j < i })

\* C40: whatever servers were added, removed, enabled and disabled before
\* it, a resolution from the pool selects a node of the pool as it now is,
\* the enabled row at position counter mod size, and a resolution that
\* finds no enabled server uses the explicit address of the registration
\* and leaves the counter alone.
C40_SelectsWithinCurrentPool ==
    [][\A name \in ModelNames :
         ResolveModel(name)
           => LET out == resolveLog'[name][Len(resolveLog'[name])]
                  size == Cardinality(EnabledRows)
              IN  /\ out.status = 200
                  /\ out.pooled <=> size > 0
                  /\ out.pooled
                       => /\ out.index = RRGet(ROUND_ROBIN_STATE, name) % size
                          /\ \E i \in EnabledRows :
                                /\ out.node = servers[i]
                                /\ EnabledBefore(i) = out.index
                          /\ ROUND_ROBIN_STATE'[name] = out.index + 1
                  /\ ~out.pooled
                       => /\ out.host = ReachableHost(models[name].backend_host, primaryIp)
                          /\ out.port = models[name].backend_port
                          /\ ROUND_ROBIN_STATE' = ROUND_ROBIN_STATE]_vars

\* the model m was resolved from a pool, then from a pool of one with a
\* counter that had reached its size, and last, with every server disabled, by
\* its explicit address
C40_Witness ==
    /\ Len(resolveLog["m"]) = 3
    /\ resolveLog["m"][1].pooled /\ resolveLog["m"][1].index = 0
    /\ resolveLog["m"][2].pooled /\ resolveLog["m"][2].read = 1
    /\ resolveLog["m"][2].index = 0
    /\ ~resolveLog["m"][3].pooled
    /\ EnabledRows = {}
    /\ Len(servers) > 0

====
